---------------------------- MODULE Spec2Model ----------------------------
(***************************************************************************)
(* teehistorian-py: the chunk catalog (src/chunks.rs, src/macros.rs), the  *)
(* error boundary (src/errors.rs) and the build step that reflects the     *)
(* catalog's source text into a Python stub document (build.rs).           *)
(*                                                                         *)
(* Text is modelled as a sequence of one-character strings, so that the    *)
(* code's string operations (strip_prefix, starts_with, trim_*_matches,    *)
(* find, split_whitespace, replace) are computed as the code computes them.*)
(***************************************************************************)
EXTENDS Integers, Sequences, FiniteSets, TLC

VARIABLES
    pc,        \* build.rs main: the statement the build step is at
    source,    \* the declaration source file src/chunks.rs as the build reads it
    chunks,    \* main's `chunks`: the Vec<ChunkInfo> the reflector returned
    pyi,       \* main's `pyi_content`: the stub document
    outFile,   \* OUT_DIR/_rust.pyi
    pkgFile,   \* src/python/teehistorian_py/_rust.pyi
    args,      \* the values the constructor of obj was called with
    obj,       \* a record instance of the catalog (a frozen pyclass object)
    ret,       \* what the last method call on obj returned or raised
    ty,        \* a field type handed to rust_type_to_python
    py,        \* the Python type hint it returned
    err,       \* a TeehistorianParseError on its way to Python
    pyErr      \* the PyErr it was converted to

vars == <<pc, source, chunks, pyi, outFile, pkgFile, args, obj, ret, ty, py, err, pyErr>>

buildVars == <<pc, source, chunks, pyi, outFile, pkgFile>>
chunkVars == <<args, obj, ret>>
typeVars  == <<ty, py>>
errVars   == <<err, pyErr>>

NoObject == [struct |-> << >>, f |-> << >>]

NoCall == [method |-> ""]

(***************************************************************************)
(* std::str operations the code uses                                       *)
(***************************************************************************)

Range(s) == { s[i] : i \in DOMAIN s }

\* s[from..] with a 0-based byte offset, as in &doc[pos + 9..]
slice_from(s, from) == SubSeq(s, from + 1, Len(s))

starts_with(s, p) == Len(s) >= Len(p) /\ SubSeq(s, 1, Len(p)) = p

ends_with(s, p) == Len(s) >= Len(p) /\ SubSeq(s, Len(s) - Len(p) + 1, Len(s)) = p

\* Option<T>: the empty sequence is None, a one-element sequence is Some(x)
NoneOpt == << >>

Some(x) == <<x>>

\* Option::unwrap_or
unwrap_or(o, d) == IF o = NoneOpt THEN d ELSE o[1]

\* str::strip_prefix: Some(rest) when s starts with p, else None
strip_prefix(s, p) == IF starts_with(s, p) THEN Some(slice_from(s, Len(p))) ELSE NoneOpt

\* str::trim_start_matches: removes the prefix p repeatedly
RECURSIVE trim_start_matches(_, _)
trim_start_matches(s, p) ==
    IF p # << >> /\ starts_with(s, p)
    THEN trim_start_matches(slice_from(s, Len(p)), p)
    ELSE s

\* str::trim_end_matches: removes the suffix p repeatedly
RECURSIVE trim_end_matches(_, _)
trim_end_matches(s, p) ==
    IF p # << >> /\ ends_with(s, p)
    THEN trim_end_matches(SubSeq(s, 1, Len(s) - Len(p)), p)
    ELSE s

\* str::replace(c, ""): every occurrence of the character c removed
remove_char(s, c) == SelectSeq(s, LAMBDA x : x # c)

\* [String]::join(sep)
RECURSIVE join(_, _)
join(parts, sep) ==
    IF parts = << >> THEN << >>
    ELSE IF Len(parts) = 1 THEN parts[1]
    ELSE parts[1] \o sep \o join(Tail(parts), sep)

(***************************************************************************)
(* build.rs: the type mapping                                              *)
(***************************************************************************)

\* Nesting depth of the generic types handed to the mapping.
MaxTypeDepth == 3

IntNames ==
    { <<"i","8">>, <<"i","1","6">>, <<"i","3","2">>, <<"i","6","4">>, <<"i","1","2","8">>, <<"u","8">>, <<"u","1","6">>, <<"u","3","2">>, <<"u","6","4">>,
      <<"u","1","2","8">>, <<"u","s","i","z","e">>, <<"i","s","i","z","e">> }

\* A syn::Type as its token stream: the types a field of src/chunks.rs can
\* be written with, each token a text.
ScalarTypes ==
    { <<n>> : n \in IntNames }
      \cup { <<<<"f","3","2">>>>, <<<<"f","6","4">>>>, <<<<"b","o","o","l">>>>, <<<<"S","t","r","i","n","g">>>>, <<<<"s","t","r">>>>,
             <<<<"U","u","i","d">>>>, <<<<"C","h","u","n","k">>>>, <<<<"&">>, <<"[">>, <<"u","8">>, <<"]">>>> }

Generic1(name, arg) == <<name, <<"<">>>> \o arg \o <<<<">">>>>

Generic2(name, k, v) == <<name, <<"<">>>> \o k \o <<<<",">>>> \o v \o <<<<">">>>>

Vec(t) == Generic1(<<"V","e","c">>, t)

Option(t) == Generic1(<<"O","p","t","i","o","n">>, t)

\* The field types src/chunks.rs uses
T_i32 == <<<<"i","3","2">>>>

T_String == <<<<"S","t","r","i","n","g">>>>

T_VecU8 == Vec(<<<<"u","8">>>>)

T_VecI32 == Vec(<<<<"i","3","2">>>>)

RECURSIVE TypesUpTo(_)
TypesUpTo(d) ==
    IF d = 0 THEN ScalarTypes
    ELSE LET T == TypesUpTo(d - 1)
         IN  T \cup { Vec(t) : t \in T }
               \cup { Option(t) : t \in T }
               \cup { Generic2(<<"H","a","s","h","M","a","p">>, <<<<"S","t","r","i","n","g">>>>, t) : t \in T }
               \cup { Generic2(<<"B","T","r","e","e","M","a","p">>, <<<<"S","t","r","i","n","g">>>>, t) : t \in T }

Types == TypesUpTo(MaxTypeDepth)

\* quote!(#ty).to_string(): the tokens separated by spaces
to_string(tokens) == join(tokens, <<" ">>)

convert_inner_type(type_str) ==
    IF type_str \in IntNames THEN <<"i","n","t">>
    ELSE IF type_str \in {<<"f","3","2">>, <<"f","6","4">>} THEN <<"f","l","o","a","t">>
    ELSE IF type_str = <<"b","o","o","l">> THEN <<"b","o","o","l">>
    ELSE IF type_str \in {<<"S","t","r","i","n","g">>, <<"s","t","r">>} THEN <<"s","t","r">>
    ELSE IF type_str \in {<<"V","e","c","<","u","8",">">>, <<"&","[","u","8","]">>} THEN <<"b","y","t","e","s">>
    ELSE IF type_str = <<"U","u","i","d">> THEN <<"s","t","r">>
    ELSE <<"A","n","y">>

\* the mapping with the type's own text where it knows no hint
rust_type_to_python_without_fallback(t) ==
    LET s == remove_char(to_string(t), " ")
    IN  IF s \in IntNames THEN <<"i","n","t">>
        ELSE IF s \in {<<"f","3","2">>, <<"f","6","4">>} THEN <<"f","l","o","a","t">>
        ELSE IF s = <<"b","o","o","l">> THEN <<"b","o","o","l">>
        ELSE IF s \in {<<"S","t","r","i","n","g">>, <<"s","t","r">>} THEN <<"s","t","r">>
        ELSE IF s \in {<<"V","e","c","<","u","8",">">>, <<"&","[","u","8","]">>} THEN <<"b","y","t","e","s">>
        ELSE IF starts_with(s, <<"V","e","c","<","i">>) /\ ends_with(s, <<">">>) THEN <<"L","i","s","t","[","i","n","t","]">>
        ELSE IF starts_with(s, <<"V","e","c","<">>) THEN <<"L","i","s","t","[","A","n","y","]">>
        ELSE IF starts_with(s, <<"O","p","t","i","o","n","<">>)
             THEN LET inner == trim_end_matches(trim_start_matches(s, <<"O","p","t","i","o","n","<">>), <<">">>)
                  IN  <<"O","p","t","i","o","n","a","l","[">> \o convert_inner_type(inner) \o <<"]">>
        ELSE IF starts_with(s, <<"H","a","s","h","M","a","p","<">>) \/ starts_with(s, <<"B","T","r","e","e","M","a","p","<">>)
             THEN <<"D","i","c","t","[","A","n","y",","," ","A","n","y","]">>
        ELSE IF s = <<"U","u","i","d">> THEN <<"s","t","r">>
        ELSE s

rust_type_to_python(t) ==
    LET s == remove_char(to_string(t), " ")
    IN  IF s \in IntNames THEN <<"i","n","t">>
        ELSE IF s \in {<<"f","3","2">>, <<"f","6","4">>} THEN <<"f","l","o","a","t">>
        ELSE IF s = <<"b","o","o","l">> THEN <<"b","o","o","l">>
        ELSE IF s \in {<<"S","t","r","i","n","g">>, <<"s","t","r">>} THEN <<"s","t","r">>
        ELSE IF s \in {<<"V","e","c","<","u","8",">">>, <<"&","[","u","8","]">>} THEN <<"b","y","t","e","s">>
        ELSE IF starts_with(s, <<"V","e","c","<","i">>) /\ ends_with(s, <<">">>) THEN <<"L","i","s","t","[","i","n","t","]">>
        ELSE IF starts_with(s, <<"V","e","c","<">>) THEN <<"L","i","s","t","[","A","n","y","]">>
        ELSE IF starts_with(s, <<"O","p","t","i","o","n","<">>)
             THEN LET inner == trim_end_matches(trim_start_matches(s, <<"O","p","t","i","o","n","<">>), <<">">>)
                  IN  <<"O","p","t","i","o","n","a","l","[">> \o convert_inner_type(inner) \o <<"]">>
        ELSE IF starts_with(s, <<"H","a","s","h","M","a","p","<">>) \/ starts_with(s, <<"B","T","r","e","e","M","a","p","<">>)
             THEN <<"D","i","c","t","[","A","n","y",","," ","A","n","y","]">>
        ELSE IF s = <<"U","u","i","d">> THEN <<"s","t","r">>
        ELSE <<"A","n","y">>

\* extract_chunk_info hands one field type to the mapping
MapType ==
    /\ ty # << >>
    /\ py = NoneOpt
    /\ py' = Some(rust_type_to_python(ty))
    /\ UNCHANGED <<ty, buildVars, chunkVars, errVars>>

(***************************************************************************)
(* Values: Rust String, Vec<u8>, Vec<i32>, i32, uuid::Uuid                 *)
(***************************************************************************)

\* The printable ASCII characters in code order, from the space (code 32) on.
\* "grave" stands for the grave accent, which a TLA+ string cannot hold, and
\* "nul" (not in the table) for the character of code 0.
Ascii ==
    <<
       " ","!","\"","#","<<",">>%","&","'","(",")","*","+",",","-",".","/",
       "0","1","2","3","4","5","6","7","8","9",":",";","<","=",">","?",
       "@","A","B","C","D","E","F","G","H","I","J","K","L","M","N","O",
       "P","Q","R","S","T","U","V","W","X","Y","Z","[","\\","]","^","_",
       "grave","a","b","c","d","e","f","g","h","i","j","k","l","m","n","o",
       "p","q","r","s","t","u","v","w","x","y","z","{","|","}","~"
    >>

\* The byte that encodes the character c in a String (UTF-8 of an ASCII char)
byte_of(c) ==
    CASE c = "nul" -> 0
      [] c = "\t" -> 9
      [] c = "\n" -> 10
      [] OTHER -> 31 + (CHOOSE i \in DOMAIN Ascii : Ascii[i] = c)

\* String::as_bytes / str::as_bytes
as_bytes(s) == [i \in DOMAIN s |-> byte_of(s[i])]

\* Vec<u8>::as_slice: a view of the same bytes
as_slice(v) == v

HexDigits == <<"0","1","2","3","4","5","6","7","8","9","a","b","c","d","e","f">>

HexDigitsUpper == <<"0","1","2","3","4","5","6","7","8","9","A","B","C","D","E","F">>

is_hex(c) == c \in Range(HexDigits) \cup Range(HexDigitsUpper)

hex_val(c) ==
    IF c \in Range(HexDigits)
    THEN (CHOOSE i \in DOMAIN HexDigits : HexDigits[i] = c) - 1
    ELSE (CHOOSE i \in DOMAIN HexDigitsUpper : HexDigitsUpper[i] = c) - 1

\* 32 hexadecimal digits to 16 bytes; None when a character is no digit
parse_simple(s) ==
    IF Len(s) = 32 /\ \A i \in DOMAIN s : is_hex(s[i])
    THEN Some([i \in 1..16 |-> 16 * hex_val(s[2 * i - 1]) + hex_val(s[2 * i])])
    ELSE NoneOpt

\* the 8-4-4-4-12 form
parse_hyphenated(s) ==
    IF Len(s) = 36 /\ \A i \in {9, 14, 19, 24} : s[i] = "-"
    THEN parse_simple(SelectSeq(s, LAMBDA c : c # "-"))
    ELSE NoneOpt

\* uuid::Uuid::parse_str: simple, hyphenated, braced and URN forms
parse_str(s) ==
    IF Len(s) = 32 THEN parse_simple(s)
    ELSE IF Len(s) = 36 THEN parse_hyphenated(s)
    ELSE IF Len(s) = 38 /\ s[1] = "{" /\ s[38] = "}"
         THEN parse_hyphenated(SubSeq(s, 2, 37))
    ELSE IF Len(s) = 45 /\ starts_with(s, <<"u","r","n",":","u","u","i","d",":">>)
         THEN parse_hyphenated(slice_from(s, 9))
    ELSE NoneOpt

\* Uuid::default(), the nil identifier
nil_uuid == [i \in 1..16 |-> 0]

\* Constructor arguments the model draws from
MaxInputLen == 15

I32Values == {-1, 0, 7}

StringValues ==
    { << >>, <<"a","b">>, <<"a"," ","b">>, <<"a", "nul", "b">>, <<"n","o","t","-","a","-","t","o","k","e","n">>,
      <<"0","0","1","1","2","2","3","3","-","4","4","5","5","-","6","6","7","7","-","8","8","9","9","-","a","A","b","B","c","C","d","D","e","E","f","F">> }

BytesValues == { << >>, <<1, 2>>, [i \in 1..33 |-> 7 * i] }

InputValues == { [i \in 1..n |-> i] : n \in 0..MaxInputLen }

ValuesOf(type) ==
    CASE type = T_i32 -> I32Values
      [] type = T_String -> StringValues
      [] type = T_VecU8 -> BytesValues
      [] type = T_VecI32 -> InputValues

\* Every argument tuple for a constructor with these parameters
RECURSIVE ArgTuples(_)
ArgTuples(fields) ==
    IF fields = << >> THEN { << >> }
    ELSE { <<v>> \o rest : v \in ValuesOf(Head(fields).ty), rest \in ArgTuples(Tail(fields)) }

(***************************************************************************)
(* src/chunks.rs: the declarations handed to the macros of src/macros.rs   *)
(***************************************************************************)

F(field, type, wire) == [field |-> field, ty |-> type, wire |-> wire, conv |-> << >>]

FC(field, type, wire, conv) == [field |-> field, ty |-> type, wire |-> wire, conv |-> conv]

\* One entry per macro invocation of src/chunks.rs, in file order. `args` is
\* what the declaration gives in parentheses: the wire variant, and for the
\* two-name form of define_chunk_custom! the wire struct as well.
MacroDecls == <<
    [macro |-> "define_inline_chunk", name |-> <<"J","o","i","n">>, args |-> << >>,
     fields |-> << F(<<"c","l","i","e","n","t","_","i","d">>, T_i32, <<"c","i","d">>) >>],
    [macro |-> "define_inline_chunk", name |-> <<"J","o","i","n","V","e","r","6">>, args |-> << >>,
     fields |-> << F(<<"c","l","i","e","n","t","_","i","d">>, T_i32, <<"c","i","d">>) >>],
    [macro |-> "define_chunk", name |-> <<"D","r","o","p">>, args |-> << <<"D","r","o","p">> >>,
     fields |-> << F(<<"c","l","i","e","n","t","_","i","d">>, T_i32, <<"c","i","d">>), F(<<"r","e","a","s","o","n">>, T_String, <<"r","e","a","s","o","n">>) >>],
    [macro |-> "define_chunk", name |-> <<"P","l","a","y","e","r","N","e","w">>, args |-> << <<"P","l","a","y","e","r","N","e","w">> >>,
     fields |-> << F(<<"c","l","i","e","n","t","_","i","d">>, T_i32, <<"c","i","d">>), F(<<"x">>, T_i32, <<"x">>), F(<<"y">>, T_i32, <<"y">>) >>],
    [macro |-> "define_inline_chunk", name |-> <<"P","l","a","y","e","r","O","l","d">>, args |-> << >>,
     fields |-> << F(<<"c","l","i","e","n","t","_","i","d">>, T_i32, <<"c","i","d">>) >>],
    [macro |-> "define_chunk_custom", name |-> <<"P","l","a","y","e","r","N","a","m","e">>, args |-> << <<"P","l","a","y","e","r","N","a","m","e">> >>,
     fields |-> << FC(<<"c","l","i","e","n","t","_","i","d">>, T_i32, <<"c","i","d">>, << >>),
                   FC(<<"n","a","m","e">>, T_String, <<"n","a","m","e">>, <<"a","s","_","b","y","t","e","s">>) >>],
    [macro |-> "define_chunk", name |-> <<"P","l","a","y","e","r","D","i","f","f">>, args |-> << <<"P","l","a","y","e","r","D","i","f","f">> >>,
     fields |-> << F(<<"c","l","i","e","n","t","_","i","d">>, T_i32, <<"c","i","d">>), F(<<"d","x">>, T_i32, <<"d","x">>), F(<<"d","y">>, T_i32, <<"d","y">>) >>],
    [macro |-> "define_chunk_custom", name |-> <<"N","e","t","M","e","s","s","a","g","e">>, args |-> << <<"N","e","t","M","e","s","s","a","g","e">> >>,
     fields |-> << FC(<<"c","l","i","e","n","t","_","i","d">>, T_i32, <<"c","i","d">>, << >>),
                   FC(<<"m","s","g">>, T_String, <<"m","s","g">>, <<"a","s","_","b","y","t","e","s">>) >>],
    [macro |-> "define_chunk_custom", name |-> <<"C","o","n","s","o","l","e","C","o","m","m","a","n","d">>,
     args |-> << <<"C","o","n","s","o","l","e","C","o","m","m","a","n","d">> >>,
     fields |-> << FC(<<"c","l","i","e","n","t","_","i","d">>, T_i32, <<"c","i","d">>, << >>),
                   FC(<<"f","l","a","g","s">>, T_i32, <<"f","l","a","g","s">>, << >>),
                   FC(<<"c","m","d">>, T_String, <<"c","m","d">>, <<"a","s","_","b","y","t","e","s">>),
                   FC(<<"a","r","g","s">>, T_String, <<"a","r","g","s">>, <<"a","s","_","a","r","g","s","_","v","e","c">>) >>],
    [macro |-> "define_chunk_custom", name |-> <<"A","u","t","h","L","o","g","i","n">>,
     args |-> << <<"A","u","t","h","L","o","g","i","n">>, <<"A","u","t","h">> >>,
     fields |-> << FC(<<"c","l","i","e","n","t","_","i","d">>, T_i32, <<"c","i","d">>, << >>),
                   FC(<<"l","e","v","e","l">>, T_i32, <<"l","e","v","e","l">>, << >>),
                   FC(<<"a","u","t","h","_","n","a","m","e">>, T_String, <<"a","u","t","h","_","n","a","m","e">>, <<"a","s","_","b","y","t","e","s">>) >>],
    [macro |-> "define_chunk_custom", name |-> <<"D","d","n","e","t","V","e","r","s","i","o","n">>,
     args |-> << <<"D","d","n","e","t","V","e","r","s","i","o","n">> >>,
     fields |-> << FC(<<"c","l","i","e","n","t","_","i","d">>, T_i32, <<"c","i","d">>, << >>),
                   FC(<<"c","o","n","n","e","c","t","i","o","n","_","i","d">>, T_String, <<"c","o","n","n","e","c","t","i","o","n","_","i","d">>, <<"a","s","_","u","u","i","d">>),
                   FC(<<"v","e","r","s","i","o","n">>, T_i32, <<"v","e","r","s","i","o","n">>, << >>),
                   FC(<<"v","e","r","s","i","o","n","_","s","t","r">>, T_VecU8, <<"v","e","r","s","i","o","n","_","s","t","r">>, <<"a","s","_","s","l","i","c","e">>) >>],
    [macro |-> "define_inline_chunk", name |-> <<"T","i","c","k","S","k","i","p">>, args |-> << >>,
     fields |-> << F(<<"d","t">>, T_i32, <<"d","t">>) >>],
    [macro |-> "define_chunk_custom", name |-> <<"T","e","a","m","L","o","a","d","S","u","c","c","e","s","s">>,
     args |-> << <<"T","e","a","m","L","o","a","d","S","u","c","c","e","s","s">>, <<"T","e","a","m","S","a","v","e">> >>,
     fields |-> << FC(<<"t","e","a","m">>, T_i32, <<"t","e","a","m">>, << >>),
                   FC(<<"s","a","v","e","_","i","d">>, T_String, <<"s","a","v","e","_","i","d">>, <<"a","s","_","u","u","i","d">>),
                   FC(<<"s","a","v","e">>, T_String, <<"s","a","v","e">>, <<"a","s","_","b","y","t","e","s">>) >>],
    [macro |-> "define_inline_chunk", name |-> <<"T","e","a","m","L","o","a","d","F","a","i","l","u","r","e">>, args |-> << >>,
     fields |-> << F(<<"t","e","a","m">>, T_i32, <<"t","e","a","m">>) >>],
    [macro |-> "define_chunk_custom", name |-> <<"A","n","t","i","B","o","t">>, args |-> << <<"A","n","t","i","b","o","t">> >>,
     fields |-> << FC(<<"d","a","t","a">>, T_String, <<"d","a","t","a">>, <<"a","s","_","b","y","t","e","s">>) >> ],
    [macro |-> "define_zero_field_chunk", name |-> <<"E","o","s">>, args |-> << <<"E","o","s">> >>,
     fields |-> << >>]
>>

\* The struct definitions written by hand in src/chunks.rs: the struct's
\* identifier, its /// lines and its fields in declaration order.
HandStructs == <<
    [ident |-> <<"P","y","P","l","a","y","e","r","R","e","a","d","y">>,
     doc |-> << <<" ","P","l","a","y","e","r"," ","b","e","c","o","m","e","s"," ","r","e","a","d","y"," ","t","o"," ","p","l","a","y">>, <<" ","C","a","t","e","g","o","r","y",":"," ","P","l","a","y","e","r","L","i","f","e","c","y","c","l","e">> >>,
     fields |-> << F(<<"c","l","i","e","n","t","_","i","d">>, T_i32, << >>) >>],
    [ident |-> <<"P","y","P","l","a","y","e","r","T","e","a","m">>,
     doc |-> << <<" ","P","l","a","y","e","r"," ","c","h","a","n","g","e","s"," ","t","e","a","m">>, <<" ","C","a","t","e","g","o","r","y",":"," ","P","l","a","y","e","r","S","t","a","t","e">> >>,
     fields |-> << F(<<"c","l","i","e","n","t","_","i","d">>, T_i32, << >>), F(<<"t","e","a","m">>, T_i32, << >>) >>],
    [ident |-> <<"P","y","I","n","p","u","t","N","e","w">>,
     doc |-> << <<" ","N","e","w"," ","p","l","a","y","e","r"," ","i","n","p","u","t"," ","s","t","a","t","e">>, <<" ","C","a","t","e","g","o","r","y",":"," ","I","n","p","u","t">> >>,
     fields |-> << F(<<"c","l","i","e","n","t","_","i","d">>, T_i32, << >>), F(<<"i","n","p","u","t">>, T_VecI32, << >>) >>],
    [ident |-> <<"P","y","I","n","p","u","t","D","i","f","f">>,
     doc |-> << <<" ","P","l","a","y","e","r"," ","i","n","p","u","t"," ","d","i","f","f","e","r","e","n","c","e"," ","f","r","o","m"," ","p","r","e","v","i","o","u","s"," ","s","t","a","t","e">>, <<" ","C","a","t","e","g","o","r","y",":"," ","I","n","p","u","t">> >>,
     fields |-> << F(<<"c","l","i","e","n","t","_","i","d">>, T_i32, << >>), F(<<"i","n","p","u","t">>, T_VecI32, << >>) >>],
    [ident |-> <<"P","y","U","n","k","n","o","w","n">>,
     doc |-> << <<" ","U","n","k","n","o","w","n"," ","c","h","u","n","k"," ","w","i","t","h"," ","U","U","I","D"," ","(","n","o","t"," ","r","e","g","i","s","t","e","r","e","d",")">> >>,
     fields |-> << F(<<"u","u","i","d">>, T_String, << >>), F(<<"d","a","t","a">>, T_VecU8, << >>) >>],
    [ident |-> <<"P","y","C","u","s","t","o","m","C","h","u","n","k">>,
     doc |-> << <<" ","C","u","s","t","o","m"," ","c","h","u","n","k"," ","w","i","t","h"," ","r","e","g","i","s","t","e","r","e","d"," ","h","a","n","d","l","e","r">> >>,
     fields |-> << F(<<"u","u","i","d">>, T_String, << >>), F(<<"d","a","t","a">>, T_VecU8, << >>),
                   F(<<"h","a","n","d","l","e","r","_","n","a","m","e">>, T_String, << >>) >>],
    [ident |-> <<"P","y","G","e","n","e","r","i","c">>,
     doc |-> << <<" ","G","e","n","e","r","i","c","/","f","a","l","l","b","a","c","k"," ","c","h","u","n","k"," ","t","y","p","e">> >>,
     fields |-> << F(<<"d","a","t","a">>, T_String, << >>) >>]
>>

(***************************************************************************)
(* src/macros.rs: what the macros expand a declaration to                  *)
(***************************************************************************)

\* paste!'s [<Py $name>]
struct_ident(d) == <<"P","y">> \o d.name

\* pub fn new($($field: $field_ty),*) -> Self { Self { $($field),* } }
\* an instance is its struct and its field values
new(ident, fields, values) ==
    [struct |-> ident,
     f |-> [k \in { fields[i].field : i \in DOMAIN fields } |->
                values[CHOOSE i \in DOMAIN fields : fields[i].field = k]]]

\* the rule with the text's last byte left out
convert_field_cutting_text(value, type) ==
    IF type = T_String THEN as_bytes(SubSeq(value, 1, Len(value) - 1))
    ELSE IF type = T_VecU8 THEN as_slice(value)
    ELSE value

\* define_chunk!(@convert_field ..) and define_inline_chunk!(@convert_field ..)
convert_field(value, type) ==
    IF type = T_String THEN as_bytes(value)
    ELSE IF type = T_VecU8 THEN as_slice(value)
    ELSE value

\* as_args_vec splitting the text at its null bytes and at its spaces
apply_conversion_splitting_args(value, conversion) ==
    LET RECURSIVE pieces(_, _)
        pieces(s, piece) ==
            IF s = << >> THEN << piece >>
            ELSE IF Head(s) \in {"nul", " "} THEN << piece >> \o pieces(Tail(s), << >>)
            ELSE pieces(Tail(s), Append(piece, Head(s)))
    IN  CASE conversion = <<"a","s","_","s","t","r">> -> value
          [] conversion = <<"a","s","_","b","y","t","e","s">> -> as_bytes(value)
          [] conversion = <<"a","s","_","s","l","i","c","e">> -> as_slice(value)
          [] conversion = <<"a","s","_","u","u","i","d">> -> unwrap_or(parse_str(value), nil_uuid)
          [] conversion = <<"a","s","_","a","r","g","s","_","v","e","c">> ->
                 LET ps == pieces(value, << >>) IN [i \in DOMAIN ps |-> as_bytes(ps[i])]
          [] conversion = << >> -> value

\* define_chunk_custom!(@apply_conversion ..)
apply_conversion(value, conversion) ==
    CASE conversion = <<"a","s","_","s","t","r">> -> value
      [] conversion = <<"a","s","_","b","y","t","e","s">> -> as_bytes(value)
      [] conversion = <<"a","s","_","s","l","i","c","e">> -> as_slice(value)
      [] conversion = <<"a","s","_","u","u","i","d">> -> unwrap_or(parse_str(value), nil_uuid)
      [] conversion = <<"a","s","_","a","r","g","s","_","v","e","c">> -> << as_bytes(value) >>
      [] conversion = << >> -> value

\* A teehistorian::Chunk value: the enum variant, the teehistorian::chunks
\* struct a tuple variant wraps (none for an inline or unit variant) and the
\* fields in the order written.
WireChunk(variant, struct, fields) ==
    [variant |-> variant, struct |-> struct, fields |-> fields]

define_chunk_to_teehistorian_chunk(d, self) ==
    WireChunk(d.args[1], Some(d.args[1]),
              [i \in DOMAIN d.fields |->
                  <<d.fields[i].wire, convert_field(self.f[d.fields[i].field], d.fields[i].ty)>>])

\* the variant taken from the struct's name instead of the variant's
to_teehistorian_chunk_tagged_by_struct(d, self) ==
    WireChunk(d.args[Len(d.args)], Some(d.args[Len(d.args)]),
              [i \in DOMAIN d.fields |->
                  <<d.fields[i].wire,
                    apply_conversion(self.f[d.fields[i].field], d.fields[i].conv)>>])

\* the wrapped struct named as the variant whatever the declaration says
to_teehistorian_chunk_struct_named_as_variant(d, self) ==
    WireChunk(d.args[1], Some(d.args[1]),
              [i \in DOMAIN d.fields |->
                  <<d.fields[i].wire,
                    apply_conversion(self.f[d.fields[i].field], d.fields[i].conv)>>])

\* both arms: $name($variant :: $struct) and $name($variant)
define_chunk_custom_to_teehistorian_chunk(d, self) ==
    WireChunk(d.args[1],
              Some(IF Len(d.args) = 2 THEN d.args[2] ELSE d.args[1]),
              [i \in DOMAIN d.fields |->
                  <<d.fields[i].wire,
                    apply_conversion(self.f[d.fields[i].field], d.fields[i].conv)>>])

\* the fields written under the record's own field names
to_teehistorian_chunk_under_field_names(d, self) ==
    WireChunk(d.name, NoneOpt,
              [i \in DOMAIN d.fields |->
                  <<d.fields[i].field, convert_field(self.f[d.fields[i].field], d.fields[i].ty)>>])

define_inline_chunk_to_teehistorian_chunk(d, self) ==
    WireChunk(d.name, NoneOpt,
              [i \in DOMAIN d.fields |->
                  <<d.fields[i].wire, convert_field(self.f[d.fields[i].field], d.fields[i].ty)>>])

define_zero_field_chunk_to_teehistorian_chunk(d, self) ==
    WireChunk(d.args[1], NoneOpt, << >>)

\* PyDict::set_item on an insertion-ordered dict
set_item(dict, key, value) ==
    IF \E i \in DOMAIN dict : dict[i][1] = key
    THEN [i \in DOMAIN dict |-> IF dict[i][1] = key THEN <<key, value>> ELSE dict[i]]
    ELSE Append(dict, <<key, value>>)

\* dict.set_item(stringify!($field), &self.$field)? for every field in turn
RECURSIVE set_fields(_, _, _)
set_fields(dict, names, self) ==
    IF names = << >> THEN dict
    ELSE set_fields(set_item(dict, Head(names), self.f[Head(names)]), Tail(names), self)

field_names(fields) == [i \in DOMAIN fields |-> fields[i].field]

\* to_dict of the four macros
macro_to_dict(d, self, type_tag) ==
    set_fields(set_item(<< >>, <<"t","y","p","e">>, type_tag), field_names(d.fields), self)

(***************************************************************************)
(* src/chunks.rs: the TeehistorianChunk trait and the hand-written records *)
(***************************************************************************)

\* str::split(sep): the pieces between the occurrences of sep
RECURSIVE split(_, _, _)
split(s, sep, piece) ==
    IF s = << >> THEN << piece >>
    ELSE IF starts_with(s, sep) THEN << piece >> \o split(slice_from(s, Len(sep)), sep, << >>)
    ELSE split(Tail(s), sep, Append(piece, Head(s)))

\* std::any::type_name::<Self>(): the struct's path in the crate
type_name(self) == <<"t","e","e","h","i","s","t","o","r","i","a","n","_","p","y",":",":","c","h","u","n","k","s",":",":">> \o self.struct

\* chunk_type without the strip_prefix("Py") step
chunk_type_keeping_prefix(self) ==
    LET pieces == split(type_name(self), <<":",":">>, << >>)
    IN  pieces[Len(pieces)]

\* TeehistorianChunk::chunk_type, the trait's default method
TeehistorianChunk_chunk_type(self) ==
    LET full_name == type_name(self)
        pieces == split(full_name, <<":",":">>, << >>)
        last == IF pieces = << >> THEN full_name ELSE pieces[Len(pieces)]
    IN  unwrap_or(strip_prefix(last, <<"P","y">>), full_name)

\* The length of the wire's input arrays, [i32; 10]
InputArrayLen == 10

\* the copy without the zeros the array starts with
input_array_without_padding(input) ==
    [i \in 1..(IF Len(input) < InputArrayLen THEN Len(input) ELSE InputArrayLen) |-> input[i]]

\* let mut input_array = [0i32; 10];
\* for (i, &val) in self.input.iter().take(10).enumerate() { input_array[i] = val; }
input_array(input) ==
    [i \in 1..InputArrayLen |-> IF i <= Len(input) THEN input[i] ELSE 0]

PyPlayerReady_to_teehistorian_chunk(self) ==
    WireChunk(<<"P","l","a","y","e","r","N","a","m","e">>, Some(<<"P","l","a","y","e","r","N","a","m","e">>),
              << <<<<"c","i","d">>, self.f[<<"c","l","i","e","n","t","_","i","d">>]>>, <<<<"n","a","m","e">>, << >> >> >>)

\* the team written to the wire as well
PyPlayerTeam_to_teehistorian_chunk_with_team(self) ==
    WireChunk(<<"P","l","a","y","e","r","N","a","m","e">>, Some(<<"P","l","a","y","e","r","N","a","m","e">>),
              << <<<<"c","i","d">>, self.f[<<"c","l","i","e","n","t","_","i","d">>]>>, <<<<"n","a","m","e">>, << >> >>,
                 <<<<"t","e","a","m">>, self.f[<<"t","e","a","m">>]>> >>)

PyPlayerTeam_to_teehistorian_chunk(self) ==
    WireChunk(<<"P","l","a","y","e","r","N","a","m","e">>, Some(<<"P","l","a","y","e","r","N","a","m","e">>),
              << <<<<"c","i","d">>, self.f[<<"c","l","i","e","n","t","_","i","d">>]>>, <<<<"n","a","m","e">>, << >> >> >>)

PyInputNew_to_teehistorian_chunk(self) ==
    WireChunk(<<"I","n","p","u","t","N","e","w">>, Some(<<"I","n","p","u","t","N","e","w">>),
              << <<<<"c","i","d">>, self.f[<<"c","l","i","e","n","t","_","i","d">>]>>, <<<<"i","n","p","u","t">>, input_array(self.f[<<"i","n","p","u","t">>])>> >>)

PyInputDiff_to_teehistorian_chunk(self) ==
    WireChunk(<<"I","n","p","u","t","D","i","f","f">>, Some(<<"I","n","p","u","t","D","i","f","f">>),
              << <<<<"c","i","d">>, self.f[<<"c","l","i","e","n","t","_","i","d">>]>>, <<<<"d","i","n","p","u","t">>, input_array(self.f[<<"i","n","p","u","t">>])>> >>)

\* the text's own bytes where the text is no identifier
PyUnknown_to_teehistorian_chunk_keeping_text(self) ==
    LET uuid_parsed == unwrap_or(parse_str(self.f[<<"u","u","i","d">>]), as_bytes(self.f[<<"u","u","i","d">>]))
    IN  WireChunk(<<"U","n","k","n","o","w","n","E","x">>, Some(<<"U","n","k","n","o","w","n","E","x">>),
                  << <<<<"u","u","i","d">>, uuid_parsed>>, <<<<"d","a","t","a">>, self.f[<<"d","a","t","a">>]>> >>)

PyUnknown_to_teehistorian_chunk(self) ==
    LET uuid_parsed == unwrap_or(parse_str(self.f[<<"u","u","i","d">>]), nil_uuid)
    IN  WireChunk(<<"U","n","k","n","o","w","n","E","x">>, Some(<<"U","n","k","n","o","w","n","E","x">>),
                  << <<<<"u","u","i","d">>, uuid_parsed>>, <<<<"d","a","t","a">>, self.f[<<"d","a","t","a">>]>> >>)

\* the handler's name written to the wire as well
PyCustomChunk_to_teehistorian_chunk_with_handler_name(self) ==
    LET uuid_parsed == unwrap_or(parse_str(self.f[<<"u","u","i","d">>]), nil_uuid)
    IN  WireChunk(<<"U","n","k","n","o","w","n","E","x">>, Some(<<"U","n","k","n","o","w","n","E","x">>),
                  << <<<<"u","u","i","d">>, uuid_parsed>>, <<<<"d","a","t","a">>, self.f[<<"d","a","t","a">>]>>,
                     <<<<"h","a","n","d","l","e","r","_","n","a","m","e">>, as_bytes(self.f[<<"h","a","n","d","l","e","r","_","n","a","m","e">>])>> >>)

PyCustomChunk_to_teehistorian_chunk(self) ==
    LET uuid_parsed == unwrap_or(parse_str(self.f[<<"u","u","i","d">>]), nil_uuid)
    IN  WireChunk(<<"U","n","k","n","o","w","n","E","x">>, Some(<<"U","n","k","n","o","w","n","E","x">>),
                  << <<<<"u","u","i","d">>, uuid_parsed>>, <<<<"d","a","t","a">>, self.f[<<"d","a","t","a">>]>> >>)

\* the message addressed to client 0 instead of -1
PyGeneric_to_teehistorian_chunk_for_client_zero(self) ==
    WireChunk(<<"N","e","t","M","e","s","s","a","g","e">>, Some(<<"N","e","t","M","e","s","s","a","g","e">>),
              << <<<<"c","i","d">>, 0>>, <<<<"m","s","g">>, as_bytes(self.f[<<"d","a","t","a">>])>> >>)

PyGeneric_to_teehistorian_chunk(self) ==
    WireChunk(<<"N","e","t","M","e","s","s","a","g","e">>, Some(<<"N","e","t","M","e","s","s","a","g","e">>),
              << <<<<"c","i","d">>, -1>>, <<<<"m","s","g">>, as_bytes(self.f[<<"d","a","t","a">>])>> >>)

\* The catalog: every record type, with the declaration it comes from
Classes ==
    { [ident |-> struct_ident(MacroDecls[i]), macro |-> MacroDecls[i].macro,
       decl |-> MacroDecls[i], fields |-> MacroDecls[i].fields] : i \in DOMAIN MacroDecls }
      \cup
    { [ident |-> HandStructs[i].ident, macro |-> "", decl |-> HandStructs[i],
       fields |-> HandStructs[i].fields] : i \in DOMAIN HandStructs }

class_of(self) == CHOOSE c \in Classes : c.ident = self.struct

\* <Self as TeehistorianChunk>::to_teehistorian_chunk
to_teehistorian_chunk(self) ==
    LET c == class_of(self)
    IN  CASE c.macro = "define_chunk" -> define_chunk_to_teehistorian_chunk(c.decl, self)
          [] c.macro = "define_chunk_custom" ->
                 define_chunk_custom_to_teehistorian_chunk(c.decl, self)
          [] c.macro = "define_inline_chunk" ->
                 define_inline_chunk_to_teehistorian_chunk(c.decl, self)
          [] c.macro = "define_zero_field_chunk" ->
                 define_zero_field_chunk_to_teehistorian_chunk(c.decl, self)
          [] self.struct = <<"P","y","P","l","a","y","e","r","R","e","a","d","y">> -> PyPlayerReady_to_teehistorian_chunk(self)
          [] self.struct = <<"P","y","P","l","a","y","e","r","T","e","a","m">> -> PyPlayerTeam_to_teehistorian_chunk(self)
          [] self.struct = <<"P","y","I","n","p","u","t","N","e","w">> -> PyInputNew_to_teehistorian_chunk(self)
          [] self.struct = <<"P","y","I","n","p","u","t","D","i","f","f">> -> PyInputDiff_to_teehistorian_chunk(self)
          [] self.struct = <<"P","y","U","n","k","n","o","w","n">> -> PyUnknown_to_teehistorian_chunk(self)
          [] self.struct = <<"P","y","C","u","s","t","o","m","C","h","u","n","k">> -> PyCustomChunk_to_teehistorian_chunk(self)
          [] self.struct = <<"P","y","G","e","n","e","r","i","c">> -> PyGeneric_to_teehistorian_chunk(self)

\* the chunk_type() of each #[pymethods] block
chunk_type(self) ==
    LET c == class_of(self)
    IN  CASE c.macro = "define_zero_field_chunk" -> c.decl.name
          [] self.struct = <<"P","y","P","l","a","y","e","r","R","e","a","d","y">> -> <<"P","l","a","y","e","r","R","e","a","d","y">>
          [] self.struct = <<"P","y","P","l","a","y","e","r","T","e","a","m">> -> <<"P","l","a","y","e","r","T","e","a","m">>
          [] OTHER -> TeehistorianChunk_chunk_type(self)

PyPlayerReady_to_dict(self) ==
    LET d1 == set_item(<< >>, <<"t","y","p","e">>, chunk_type(self))
    IN  set_item(d1, <<"c","l","i","e","n","t","_","i","d">>, self.f[<<"c","l","i","e","n","t","_","i","d">>])

PyPlayerTeam_to_dict(self) ==
    LET d1 == set_item(<< >>, <<"t","y","p","e">>, chunk_type(self))
        d2 == set_item(d1, <<"c","l","i","e","n","t","_","i","d">>, self.f[<<"c","l","i","e","n","t","_","i","d">>])
    IN  set_item(d2, <<"t","e","a","m">>, self.f[<<"t","e","a","m">>])

\* to_dict showing the list as it goes to the wire
PyInput_to_dict_of_wire_input(self) ==
    LET d1 == set_item(<< >>, <<"t","y","p","e">>, chunk_type(self))
        d2 == set_item(d1, <<"c","l","i","e","n","t","_","i","d">>, self.f[<<"c","l","i","e","n","t","_","i","d">>])
    IN  set_item(d2, <<"i","n","p","u","t">>, input_array(self.f[<<"i","n","p","u","t">>]))

\* PyInputNew::to_dict and PyInputDiff::to_dict
PyInput_to_dict(self) ==
    LET d1 == set_item(<< >>, <<"t","y","p","e">>, chunk_type(self))
        d2 == set_item(d1, <<"c","l","i","e","n","t","_","i","d">>, self.f[<<"c","l","i","e","n","t","_","i","d">>])
    IN  set_item(d2, <<"i","n","p","u","t">>, self.f[<<"i","n","p","u","t">>])

PyUnknown_to_dict(self) ==
    LET d1 == set_item(<< >>, <<"t","y","p","e">>, chunk_type(self))
        d2 == set_item(d1, <<"u","u","i","d">>, self.f[<<"u","u","i","d">>])
    IN  set_item(d2, <<"d","a","t","a">>, self.f[<<"d","a","t","a">>])

\* to_dict without the last set_item
PyCustomChunk_to_dict_without_handler_name(self) ==
    LET d1 == set_item(<< >>, <<"t","y","p","e">>, chunk_type(self))
        d2 == set_item(d1, <<"u","u","i","d">>, self.f[<<"u","u","i","d">>])
    IN  set_item(d2, <<"d","a","t","a">>, self.f[<<"d","a","t","a">>])

PyCustomChunk_to_dict(self) ==
    LET d1 == set_item(<< >>, <<"t","y","p","e">>, chunk_type(self))
        d2 == set_item(d1, <<"u","u","i","d">>, self.f[<<"u","u","i","d">>])
        d3 == set_item(d2, <<"d","a","t","a">>, self.f[<<"d","a","t","a">>])
    IN  set_item(d3, <<"h","a","n","d","l","e","r","_","n","a","m","e">>, self.f[<<"h","a","n","d","l","e","r","_","n","a","m","e">>])

PyGeneric_to_dict(self) ==
    LET d1 == set_item(<< >>, <<"t","y","p","e">>, chunk_type(self))
    IN  set_item(d1, <<"d","a","t","a">>, self.f[<<"d","a","t","a">>])

\* the to_dict() of each #[pymethods] block
to_dict(self) ==
    LET c == class_of(self)
    IN  CASE c.macro # "" -> macro_to_dict(c.decl, self, chunk_type(self))
          [] self.struct = <<"P","y","P","l","a","y","e","r","R","e","a","d","y">> -> PyPlayerReady_to_dict(self)
          [] self.struct = <<"P","y","P","l","a","y","e","r","T","e","a","m">> -> PyPlayerTeam_to_dict(self)
          [] self.struct \in {<<"P","y","I","n","p","u","t","N","e","w">>, <<"P","y","I","n","p","u","t","D","i","f","f">>} -> PyInput_to_dict(self)
          [] self.struct = <<"P","y","U","n","k","n","o","w","n">> -> PyUnknown_to_dict(self)
          [] self.struct = <<"P","y","C","u","s","t","o","m","C","h","u","n","k">> -> PyCustomChunk_to_dict(self)
          [] self.struct = <<"P","y","G","e","n","e","r","i","c">> -> PyGeneric_to_dict(self)

(***************************************************************************)
(* The Python-visible operations of a record                               *)
(***************************************************************************)

\* #[new] fn py_new(..) -> Self { Self::new(..) }
PyNew ==
    /\ obj = NoObject
    /\ \E c \in Classes :
         \E a \in ArgTuples(c.fields) :
            /\ args' = a
            /\ obj' = new(c.ident, c.fields, a)
            /\ ret' = [method |-> "new"]
    /\ UNCHANGED <<buildVars, typeVars, errVars>>

\* #[pyo3(get)] on a field
GetField ==
    /\ obj # NoObject
    /\ \E k \in DOMAIN obj.f :
         ret' = [method |-> "get", field |-> k, value |-> obj.f[k]]
    /\ UNCHANGED <<args, obj, buildVars, typeVars, errVars>>

ChunkType ==
    /\ obj # NoObject
    /\ ret' = [method |-> "chunk_type", value |-> chunk_type(obj)]
    /\ UNCHANGED <<args, obj, buildVars, typeVars, errVars>>

ToDict ==
    /\ obj # NoObject
    /\ ret' = [method |-> "to_dict", value |-> to_dict(obj)]
    /\ UNCHANGED <<args, obj, buildVars, typeVars, errVars>>

\* What teehistorian::serialize_into can answer: the bytes of the chunk, or
\* an error of the codec. The codec is not part of this repository: the
\* bytes are kept as the chunk they encode.
serialize_into(chunk) ==
    { [ok |-> TRUE, bytes |-> <<"bytes of", chunk>>],
      [ok |-> FALSE, e |-> "codec error"] }

\* write_to_buffer with a wire value that tells a repeated call from a first
write_to_buffer_marking_repeats(self, answer) ==
    LET first == to_teehistorian_chunk(self)
        chunk == IF ret.method = "write_to_buffer"
                 THEN [first EXCEPT !.fields = Append(@, <<<<"r","e","p","e","a","t","e","d">>, 1>>)]
                 ELSE first
    IN  IF answer.ok
        THEN [method |-> "write_to_buffer", chunk |-> chunk, raised |-> FALSE,
              value |-> <<"bytes of", chunk>>]
        ELSE [method |-> "write_to_buffer", chunk |-> chunk, raised |-> TRUE,
              exc |-> [type |-> "PyRuntimeError",
                       message |-> <<"Failed to serialize chunk: ", answer.e>>]]

\* TeehistorianChunk::write_to_buffer, reached through py_write_to_buffer
write_to_buffer(self, answer) ==
    LET chunk == to_teehistorian_chunk(self)
    IN  IF answer.ok
        THEN [method |-> "write_to_buffer", chunk |-> chunk, raised |-> FALSE,
              value |-> answer.bytes]
        ELSE [method |-> "write_to_buffer", chunk |-> chunk, raised |-> TRUE,
              exc |-> [type |-> "PyRuntimeError",
                       message |-> <<"Failed to serialize chunk: ", answer.e>>]]

\* write_to_buffer that keeps the converted input list in the instance
WriteToBuffer_storing_the_wire_input ==
    /\ obj # NoObject
    /\ \E answer \in serialize_into(to_teehistorian_chunk(obj)) :
         ret' = write_to_buffer(obj, answer)
    /\ obj' = IF obj.struct \in {<<"P","y","I","n","p","u","t","N","e","w">>, <<"P","y","I","n","p","u","t","D","i","f","f">>}
              THEN [obj EXCEPT !.f[<<"i","n","p","u","t">>] = input_array(@)]
              ELSE obj
    /\ UNCHANGED <<args, buildVars, typeVars, errVars>>

WriteToBuffer ==
    /\ obj # NoObject
    /\ \E answer \in serialize_into(to_teehistorian_chunk(obj)) :
         ret' = write_to_buffer(obj, answer)
    /\ UNCHANGED <<args, obj, buildVars, typeVars, errVars>>

\* format!("{:?}", self) with the derived Debug: the struct's name and its
\* fields in declaration order, each value in its own Debug form
py_repr(self) ==
    LET declared == class_of(self).fields
    IN  [debug |-> self.struct,
         fields |-> [i \in DOMAIN declared |->
                        <<declared[i].field, <<"{:?}", self.f[declared[i].field]>> >>]]

\* the __repr__ of each #[pymethods] block
repr(self) ==
    IF class_of(self).macro = "define_zero_field_chunk"
    THEN class_of(self).decl.name \o <<"(",")">>
    ELSE py_repr(self)

\* format!("{}", n) of a usize
RECURSIVE to_decimal(_)
to_decimal(n) ==
    IF n < 10 THEN << HexDigits[n + 1] >>
    ELSE Append(to_decimal(n \div 10), HexDigits[(n % 10) + 1])

\* format!("{:02x}", b)
two_hex_digits(b) == << HexDigits[(b \div 16) + 1], HexDigits[(b % 16) + 1] >>

\* PyUnknown::data_preview and PyCustomChunk::data_preview
data_preview(self) ==
    LET data == self.f[<<"d","a","t","a">>]
        preview_len == IF Len(data) < 32 THEN Len(data) ELSE 32
        hex == join([i \in 1..preview_len |-> two_hex_digits(data[i] % 256)], <<" ">>)
    IN  IF Len(data) > 32
        THEN hex \o <<".",".","."," ","(">> \o to_decimal(Len(data)) \o <<" ","b","y","t","e","s"," ","t","o","t","a","l",")">>
        ELSE hex \o <<" ","(">> \o to_decimal(Len(data)) \o <<" ","b","y","t","e","s",")">>

Repr ==
    /\ obj # NoObject
    /\ ret' = [method |-> "__repr__", value |-> repr(obj)]
    /\ UNCHANGED <<args, obj, buildVars, typeVars, errVars>>

\* __str__ is self.__repr__()
Str ==
    /\ obj # NoObject
    /\ ret' = [method |-> "__str__", value |-> repr(obj)]
    /\ UNCHANGED <<args, obj, buildVars, typeVars, errVars>>

DataPreview ==
    /\ obj # NoObject
    /\ obj.struct \in {<<"P","y","U","n","k","n","o","w","n">>, <<"P","y","C","u","s","t","o","m","C","h","u","n","k">>}
    /\ ret' = [method |-> "data_preview", value |-> data_preview(obj)]
    /\ UNCHANGED <<args, obj, buildVars, typeVars, errVars>>

(***************************************************************************)
(* src/errors.rs: the library's errors and their conversion to PyErr       *)
(***************************************************************************)

\* Length of the longest message an error is drawn with
MaxMessageLen == 3

RECURSIVE TextsUpTo(_)
TextsUpTo(n) ==
    IF n = 0 THEN { << >> }
    ELSE TextsUpTo(n - 1)
           \cup { Append(t, c) : t \in { u \in TextsUpTo(n - 1) : Len(u) = n - 1 },
                                 c \in {"a", " ", ":"} }

\* The texts an error carries: the String of a variant, or what the wrapped
\* std::io::Error or FromUtf8Error displays as
Messages == TextsUpTo(MaxMessageLen) \cup { <<"I","n","v","a","l","i","d"," ","d","a","t","a">> }

\* enum TeehistorianParseError: the variants with a payload, and Eof
PayloadKinds ==
    {"Initialization", "Header", "Parse", "Validation", "Handler", "Io", "Utf8"}

Errors ==
    { [kind |-> k, payload |-> m] : k \in PayloadKinds, m \in Messages }
      \cup { [kind |-> "Eof"] }

NoError == [kind |-> ""]

\* the #[error("..")] attributes: Display for TeehistorianParseError
err_to_string(e) ==
    CASE e.kind = "Initialization" -> <<"I","n","i","t","i","a","l","i","z","a","t","i","o","n"," ","f","a","i","l","e","d",":"," ">> \o e.payload
      [] e.kind = "Header" -> <<"H","e","a","d","e","r"," ","p","a","r","s","i","n","g"," ","f","a","i","l","e","d",":"," ">> \o e.payload
      [] e.kind = "Parse" -> <<"P","a","r","s","e"," ","e","r","r","o","r",":"," ">> \o e.payload
      [] e.kind = "Validation" -> <<"V","a","l","i","d","a","t","i","o","n"," ","f","a","i","l","e","d",":"," ">> \o e.payload
      [] e.kind = "Handler" -> <<"H","a","n","d","l","e","r"," ","e","r","r","o","r",":"," ">> \o e.payload
      [] e.kind = "Io" -> <<"I","O"," ","e","r","r","o","r",":"," ">> \o e.payload
      [] e.kind = "Utf8" -> <<"U","T","F","-","8"," ","d","e","c","o","d","e"," ","e","r","r","o","r",":"," ">> \o e.payload
      [] e.kind = "Eof" -> <<"E","n","d"," ","o","f"," ","f","i","l","e"," ","r","e","a","c","h","e","d">>

\* the conversion without its arm for Eof
PyErr_from_without_eof_arm(e) ==
    [type |-> "TeehistorianError", message |-> err_to_string(e)]

\* impl From<TeehistorianParseError> for PyErr
PyErr_from(e) ==
    IF e.kind = "Eof"
    THEN [type |-> "StopIteration", message |-> err_to_string(e)]
    ELSE [type |-> "TeehistorianError", message |-> err_to_string(e)]

\* err.into() where a function of the library returns PyResult
IntoPyErr ==
    /\ err # NoError
    /\ pyErr = NoneOpt
    /\ pyErr' = Some(PyErr_from(err))
    /\ UNCHANGED <<err, buildVars, chunkVars, typeVars>>

(***************************************************************************)
(* The declaration source as syn::parse_file gives it to build.rs          *)
(***************************************************************************)

\* #[doc = "text"], what a /// line is
DocAttr(text) == [path |-> "doc", meta |-> "NameValue", lit |-> Some(text), tokens |-> << >>]

\* #[name = "text"]
NameValueAttr(name, text) ==
    [path |-> name, meta |-> "NameValue", lit |-> Some(text), tokens |-> << >>]

\* #[name(tokens)]
ListAttr(name, tokens) == [path |-> name, meta |-> "List", lit |-> NoneOpt, tokens |-> tokens]

PyclassAttr == ListAttr("pyclass", << <<"m","o","d","u","l","e">>, <<"=">>, <<"t","e","e","h","i","s","t","o","r","i","a","n","_","p","y">>, <<",">>, <<"f","r","o","z","e","n">> >>)

DeriveAttr == ListAttr("derive", << <<"D","e","b","u","g">>, <<",">>, <<"C","l","o","n","e">> >>)

Pyo3Get == ListAttr("pyo3", << <<"g","e","t">> >>)

\* pub struct ident { #[pyo3(get)] pub field: type, .. } with its attributes
StructItem(attrs, vis, ident, fields) ==
    [kind |-> "Struct", attrs |-> attrs, vis |-> vis, ident |-> ident,
     named |-> TRUE, fields |-> fields]

\* the item of a hand-written struct of src/chunks.rs
HandStructItem(h) ==
    StructItem([i \in DOMAIN h.doc |-> DocAttr(h.doc[i])] \o << PyclassAttr, DeriveAttr >>,
               "pub", h.ident,
               [i \in DOMAIN h.fields |->
                   [ident |-> h.fields[i].field, attrs |-> << Pyo3Get >>,
                    ty |-> h.fields[i].ty]])

\* a macro invocation at item level: define_chunk! { .. } and the like
MacroItem(d) == [kind |-> "Macro", path |-> d.macro, decl |-> d]

\* use, trait and impl items
OtherItem(kind) == [kind |-> kind]

\* text that is no Rust item: syn::parse_file answers Err for the file
MalformedItem == [kind |-> "Malformed"]

\* src/chunks.rs, item by item
ChunksRs ==
    << OtherItem("Use"), OtherItem("Use"), OtherItem("Use"), OtherItem("Use"),
       OtherItem("Use"), OtherItem("Use"),
       OtherItem("Trait"), OtherItem("Trait"), OtherItem("Impl") >>
    \o << MacroItem(MacroDecls[1]), MacroItem(MacroDecls[2]), MacroItem(MacroDecls[3]) >>
    \o << HandStructItem(HandStructs[1]), OtherItem("Impl"), OtherItem("Impl"), OtherItem("Impl") >>
    \o << MacroItem(MacroDecls[4]), MacroItem(MacroDecls[5]) >>
    \o << HandStructItem(HandStructs[2]), OtherItem("Impl"), OtherItem("Impl"), OtherItem("Impl") >>
    \o << MacroItem(MacroDecls[6]), MacroItem(MacroDecls[7]) >>
    \o << HandStructItem(HandStructs[3]), OtherItem("Impl"), OtherItem("Impl"), OtherItem("Impl") >>
    \o << HandStructItem(HandStructs[4]), OtherItem("Impl"), OtherItem("Impl"), OtherItem("Impl") >>
    \o [i \in 1..9 |-> MacroItem(MacroDecls[i + 7])]
    \o << HandStructItem(HandStructs[5]), OtherItem("Impl"), OtherItem("Impl"), OtherItem("Impl") >>
    \o << HandStructItem(HandStructs[6]), OtherItem("Impl"), OtherItem("Impl"), OtherItem("Impl") >>
    \o << HandStructItem(HandStructs[7]), OtherItem("Impl"), OtherItem("Impl"), OtherItem("Impl") >>

\* Number of items of the other source files the build is run on
MaxItems == 3

\* Items those files are made of: records of src/chunks.rs, a macro
\* declaration, the base class, a struct that is no pyclass, a private
\* pyclass, a record with the old chunk_category attribute, a field without
\* getter, and text that does not parse.
ItemPool ==
    { HandStructItem(HandStructs[1]), HandStructItem(HandStructs[3]),
      HandStructItem(HandStructs[5]),
      MacroItem(MacroDecls[1]),
      MalformedItem,
      StructItem(<< DocAttr(<<" ","B","a","s","e"," ","c","l","a","s","s">>), PyclassAttr >>, "pub", <<"P","y","C","h","u","n","k">>, << >>),
      StructItem(<< DeriveAttr >>, "pub", <<"H","e","l","p","e","r">>, << >>),
      StructItem(<< PyclassAttr >>, "", <<"P","y","P","r","i","v","a","t","e">>, << >>),
      StructItem(<< NameValueAttr("chunk_category", <<" ","L","e","g","a","c","y"," ">>), PyclassAttr >>, "pub",
                 <<"P","y","A","a","a">>,
                 << [ident |-> <<"s","h","o","w","n">>, attrs |-> << Pyo3Get >>, ty |-> Option(T_VecU8)],
                    [ident |-> <<"h","i","d","d","e","n">>, attrs |-> << >>, ty |-> T_i32] >>) }

\* pub struct ident; with these attributes
UnitStructItem(attrs, ident) ==
    [kind |-> "Struct", attrs |-> attrs, vis |-> "pub", ident |-> ident,
     named |-> FALSE, fields |-> << >>]

\* Records that carry their category marker in the ways the reflector tells
\* apart: a marker with nothing after it before one with a name, an empty
\* marker and the old attribute, both a marker and the attribute, a marker
\* inside a sentence, and no marker at all
MarkerItems ==
    << UnitStructItem(<< DocAttr(<<" ","C","a","t","e","g","o","r","y",":">>), DocAttr(<<" ","C","a","t","e","g","o","r","y",":"," ","S","e","c","o","n","d"," ","e","x","t","r","a">>),
                         PyclassAttr >>, <<"P","y","E","m","p","t","y","M","a","r","k","e","r">>),
       UnitStructItem(<< DocAttr(<<" ","C","a","t","e","g","o","r","y",":"," "," "," ">>),
                         NameValueAttr("chunk_category", <<" ","L","e","g","a","c","y"," ">>), PyclassAttr >>,
                      <<"P","y","A","t","t","r","i","b","u","t","e","O","n","l","y">>),
       UnitStructItem(<< NameValueAttr("chunk_category", <<"F","r","o","m","A","t","t","r","i","b","u","t","e">>),
                         DocAttr(<<" ","C","a","t","e","g","o","r","y",":"," ","F","r","o","m","D","o","c">>), PyclassAttr >>, <<"P","y","B","o","t","h">>),
       UnitStructItem(<< DocAttr(<<" ","S","e","e"," ","C","a","t","e","g","o","r","y",":","T","i","g","h","t"," ","n","e","x","t">>), PyclassAttr >>, <<"P","y","T","i","g","h","t">>),
       UnitStructItem(<< PyclassAttr >>, <<"P","y","U","n","i","t">>) >>

RECURSIVE ItemSeqs(_)
ItemSeqs(n) ==
    IF n = 0 THEN { << >> }
    ELSE LET shorter == ItemSeqs(n - 1)
         IN  shorter \cup
             { Append(s, x) : s \in { t \in shorter : Len(t) = n - 1 },
                              x \in ItemPool }

\* insert x before position i of s
InsertAt(s, i, x) == SubSeq(s, 1, i - 1) \o <<x>> \o SubSeq(s, i, Len(s))

\* The files the build is run on: src/chunks.rs as it is, unreadable, with
\* one malformed declaration somewhere in it, the files of one record of
\* MarkerItems, and the files made of at most
\* MaxItems distinct items of ItemPool in any order.
Sources ==
    { [readable |-> TRUE, items |-> ChunksRs], [readable |-> FALSE, items |-> ChunksRs] }
      \cup { [readable |-> TRUE, items |-> InsertAt(ChunksRs, i, MalformedItem)] :
                i \in {1, 13, Len(ChunksRs) + 1} }
      \cup { [readable |-> TRUE, items |-> << MarkerItems[i] >>] : i \in DOMAIN MarkerItems }
      \cup { [readable |-> TRUE, items |-> s] :
                s \in { t \in ItemSeqs(MaxItems) : \A i, j \in DOMAIN t : t[i] = t[j] => i = j } }

(***************************************************************************)
(* build.rs: the Source Reflector                                          *)
(***************************************************************************)

\* char::is_whitespace, for the characters the model's texts hold
is_whitespace(c) == c \in {" ", "\t", "\n"}

\* str::find: the 0-based offset of the first occurrence of p in s
RECURSIVE find_from(_, _, _)
find_from(s, p, pos) ==
    IF Len(s) - pos < Len(p) THEN NoneOpt
    ELSE IF SubSeq(s, pos + 1, pos + Len(p)) = p THEN Some(pos)
    ELSE find_from(s, p, pos + 1)

find(s, p) == find_from(s, p, 0)

RECURSIVE trim_start(_)
trim_start(s) == IF s # << >> /\ is_whitespace(Head(s)) THEN trim_start(Tail(s)) ELSE s

RECURSIVE trim_end(_)
trim_end(s) ==
    IF s # << >> /\ is_whitespace(s[Len(s)]) THEN trim_end(SubSeq(s, 1, Len(s) - 1)) ELSE s

\* str::trim
trim(s) == trim_end(trim_start(s))

RECURSIVE take_word(_)
take_word(s) ==
    IF s = << >> \/ is_whitespace(Head(s)) THEN << >> ELSE <<Head(s)>> \o take_word(Tail(s))

\* s.split_whitespace().next()
first_word(s) ==
    LET rest == trim_start(s)
    IN  IF rest = << >> THEN NoneOpt ELSE Some(take_word(rest))

\* the text of #[path = "text"], when the attribute has that form
lit_str(attr, path) ==
    IF attr.path = path /\ attr.meta = "NameValue" THEN attr.lit ELSE NoneOpt

\* the first loop of extract_chunk_category: the doc lines in turn
RECURSIVE category_from_docs(_)
category_from_docs(attrs) ==
    IF attrs = << >> THEN NoneOpt
    ELSE LET doc == lit_str(Head(attrs), "doc")
             pos == IF doc = NoneOpt THEN NoneOpt ELSE find(doc[1], <<"C","a","t","e","g","o","r","y",":">>)
             category == IF pos = NoneOpt THEN << >>
                         ELSE unwrap_or(first_word(slice_from(doc[1], pos[1] + 9)), << >>)
         IN  IF category # << >> THEN Some(category)
             ELSE category_from_docs(Tail(attrs))

\* the second loop: the first chunk_category attribute
RECURSIVE category_from_attribute(_)
category_from_attribute(attrs) ==
    IF attrs = << >> THEN NoneOpt
    ELSE LET value == lit_str(Head(attrs), "chunk_category")
         IN  IF value # NoneOpt THEN Some(trim(value[1]))
             ELSE category_from_attribute(Tail(attrs))

\* the attribute looked at before the doc lines
extract_chunk_category_attribute_first(attrs) ==
    LET from_attribute == category_from_attribute(attrs)
    IN  IF from_attribute # NoneOpt THEN from_attribute ELSE category_from_docs(attrs)

extract_chunk_category(attrs) ==
    LET from_docs == category_from_docs(attrs)
    IN  IF from_docs # NoneOpt THEN from_docs ELSE category_from_attribute(attrs)

extract_doc_comments(attrs) ==
    LET doc_attrs == SelectSeq(attrs, LAMBDA a : lit_str(a, "doc") # NoneOpt)
        docs == [i \in DOMAIN doc_attrs |-> trim(doc_attrs[i].lit[1])]
    IN  IF docs = << >> THEN NoneOpt ELSE Some(join(docs, <<"\n">>))

\* #[pyo3(get)]: the attribute's arguments parse as the one identifier `get`
has_getter(field) ==
    \E i \in DOMAIN field.attrs :
        /\ field.attrs[i].path = "pyo3"
        /\ field.attrs[i].meta = "List"
        /\ field.attrs[i].tokens = << <<"g","e","t">> >>

\* A ChunkInfo
ChunkInfo(name, doc, fields, category) ==
    [name |-> name, doc |-> doc, fields |-> fields, category |-> category]

extract_chunk_info(item_struct) ==
    LET struct_name == item_struct.ident
        name == unwrap_or(strip_prefix(struct_name, <<"P","y">>), struct_name)
        doc == extract_doc_comments(item_struct.attrs)
        category == unwrap_or(extract_chunk_category(item_struct.attrs), <<"O","t","h","e","r">>)
        readable == IF item_struct.named
                    THEN SelectSeq(item_struct.fields, has_getter)
                    ELSE << >>
        fields == [i \in DOMAIN readable |->
                      <<readable[i].ident, rust_type_to_python(readable[i].ty)>>]
    IN  IF struct_name = <<"P","y","C","h","u","n","k">> THEN NoneOpt
        ELSE Some(ChunkInfo(name, doc, fields, category))

\* Ordering of byte strings: -1, 0 or 1
RECURSIVE cmp_bytes(_, _)
cmp_bytes(a, b) ==
    IF a = << >> /\ b = << >> THEN 0
    ELSE IF a = << >> THEN -1
    ELSE IF b = << >> THEN 1
    ELSE IF Head(a) < Head(b) THEN -1
    ELSE IF Head(a) > Head(b) THEN 1
    ELSE cmp_bytes(Tail(a), Tail(b))

\* Ord for String
cmp_str(a, b) == cmp_bytes(as_bytes(a), as_bytes(b))

\* Ord for Option<String>: None first
cmp_opt_str(a, b) ==
    IF a = NoneOpt /\ b = NoneOpt THEN 0
    ELSE IF a = NoneOpt THEN -1
    ELSE IF b = NoneOpt THEN 1
    ELSE cmp_str(a[1], b[1])

\* Ord for Vec<(String, String)>
RECURSIVE cmp_fields(_, _)
cmp_fields(a, b) ==
    IF a = << >> /\ b = << >> THEN 0
    ELSE IF a = << >> THEN -1
    ELSE IF b = << >> THEN 1
    ELSE LET c1 == cmp_str(Head(a)[1], Head(b)[1])
             c2 == cmp_str(Head(a)[2], Head(b)[2])
         IN  IF c1 # 0 THEN c1
             ELSE IF c2 # 0 THEN c2
             ELSE cmp_fields(Tail(a), Tail(b))

\* #[derive(Ord)] on ChunkInfo: name, doc, fields, category in turn
cmp_chunk_info(a, b) ==
    LET c1 == cmp_str(a.name, b.name)
        c2 == cmp_opt_str(a.doc, b.doc)
        c3 == cmp_fields(a.fields, b.fields)
    IN  IF c1 # 0 THEN c1
        ELSE IF c2 # 0 THEN c2
        ELSE IF c3 # 0 THEN c3
        ELSE cmp_str(a.category, b.category)

\* x put into the sorted sequence s after the elements not greater than it
RECURSIVE insert_sorted(_, _)
insert_sorted(s, x) ==
    IF s = << >> THEN <<x>>
    ELSE IF cmp_chunk_info(x, Head(s)) < 0 THEN <<x>> \o s
    ELSE <<Head(s)>> \o insert_sorted(Tail(s), x)

\* the list left in the order of the declarations
sort_skipped(s) == s

\* Vec::sort, a stable sort
RECURSIVE sort(_)
sort(s) == IF s = << >> THEN << >> ELSE insert_sorted(sort(SubSeq(s, 1, Len(s) - 1)), s[Len(s)])

\* syn::parse_file: Ok with the items, or Err when some text is no item
parse_file(content) ==
    IF \E i \in DOMAIN content : content[i].kind = "Malformed" THEN NoneOpt ELSE Some(content)

is_chunk_struct(item) ==
    /\ item.kind = "Struct"
    /\ \E i \in DOMAIN item.attrs : item.attrs[i].path = "pyclass"
    /\ item.vis = "pub"
    /\ extract_chunk_info(item) # NoneOpt

extract_chunks_from_source(file) ==
    LET parsed == IF file.readable THEN parse_file(file.items) ELSE NoneOpt
        structs == IF parsed = NoneOpt THEN << >> ELSE SelectSeq(parsed[1], is_chunk_struct)
    IN  sort([i \in DOMAIN structs |-> extract_chunk_info(structs[i])[1]])

(***************************************************************************)
(* build.rs: the Stub Emitter and main                                     *)
(***************************************************************************)

\* The keys of a BTreeMap<String, _> in iteration order: ascending
RECURSIVE sorted_keys(_)
sorted_keys(keys) ==
    IF keys = {} THEN << >>
    ELSE LET least == CHOOSE k \in keys : \A other \in keys : cmp_str(k, other) <= 0
         IN  <<least>> \o sorted_keys(keys \ {least})

\* chunks_by_category: every category with its chunks in the order of `list`
chunks_by_category(list) ==
    LET keys == sorted_keys({ list[i].category : i \in DOMAIN list })
    IN  [i \in DOMAIN keys |->
            [category |-> keys[i],
             chunks |-> SelectSeq(list, LAMBDA c : c.category = keys[i])]]

\* the class stub with its constructor's parameters in reverse order
generate_chunk_class_init_reversed(chunk) ==
    [block |-> "class",
     name |-> chunk.name,
     docstring |-> IF chunk.doc # NoneOpt THEN chunk.doc[1] ELSE <<"C","h","u","n","k"," ","t","y","p","e",":"," ">> \o chunk.name,
     annotations |-> chunk.fields,
     init |-> << <<<<"s","e","l","f">>>> >>
                \o [i \in DOMAIN chunk.fields |-> chunk.fields[Len(chunk.fields) + 1 - i]]]

\* generate_chunk_class: the class stub of one chunk
generate_chunk_class(chunk) ==
    [block |-> "class",
     name |-> chunk.name,
     docstring |-> IF chunk.doc # NoneOpt THEN chunk.doc[1] ELSE <<"C","h","u","n","k"," ","t","y","p","e",":"," ">> \o chunk.name,
     annotations |-> chunk.fields,
     init |-> << <<<<"s","e","l","f">>>> >> \o chunk.fields]

names_of(list) == [i \in DOMAIN list |-> list[i].name]

\* the section of one category: its comment line and its class stubs
category_section(group) ==
    << [block |-> "category comment", category |-> group.category] >>
      \o [i \in DOMAIN group.chunks |-> generate_chunk_class(group.chunks[i])]

\* the alias of one category without the last name of the category
category_alias_without_last(group) ==
    [block |-> "alias", var_name |-> group.category \o <<"C","h","u","n","k">>,
     members |-> names_of(SubSeq(group.chunks, 1, Len(group.chunks) - 1))]

\* the alias of one category: <category>Chunk = Union[..]
category_alias(group) ==
    [block |-> "alias", var_name |-> group.category \o <<"C","h","u","n","k">>,
     members |-> names_of(group.chunks)]

RECURSIVE concat(_)
concat(seqs) == IF seqs = << >> THEN << >> ELSE Head(seqs) \o concat(Tail(seqs))

\* The sections generate_pyi writes whatever the chunks are, in order
FixedSections ==
    << [block |-> "header"], [block |-> "imports"], [block |-> "version"],
       [block |-> "exceptions"], [block |-> "parser"], [block |-> "writer"],
       [block |-> "base chunk"] >>

\* the document whose AllChunks union names the base class when no chunk is known
generate_pyi_with_placeholder_member(list) ==
    LET groups == chunks_by_category(list)
    IN  FixedSections
          \o concat([i \in DOMAIN groups |-> category_section(groups[i])])
          \o << [block |-> "type aliases"] >>
          \o [i \in DOMAIN groups |-> category_alias(groups[i])]
          \o << [block |-> "AllChunks",
                 members |-> IF list = << >> THEN << <<"C","h","u","n","k">> >> ELSE names_of(list)] >>

\* generate_pyi: the stub document, block by block
generate_pyi(list) ==
    LET groups == chunks_by_category(list)
    IN  FixedSections
          \o concat([i \in DOMAIN groups |-> category_section(groups[i])])
          \o << [block |-> "type aliases"] >>
          \o [i \in DOMAIN groups |-> category_alias(groups[i])]
          \o << [block |-> "AllChunks", members |-> names_of(list)] >>

\* A file that holds the document doc
Written(doc) == [state |-> "written", content |-> doc]

\* What std::fs::write can leave behind: the document written, or an error
\* with the file as it was or created and cut short
fs_write(file, doc) ==
    { [ok |-> TRUE, file |-> Written(doc)],
      [ok |-> FALSE, file |-> file],
      [ok |-> FALSE, file |-> [state |-> "partial"]] }

\* main, line 14
Extract ==
    /\ pc = "extract"
    /\ chunks' = extract_chunks_from_source(source)
    /\ pc' = "generate"
    /\ UNCHANGED <<source, pyi, outFile, pkgFile, chunkVars, typeVars, errVars>>

\* the document telling whether OUT_DIR held a document already
Generate_noting_earlier_build ==
    /\ pc = "generate"
    /\ pyi' = generate_pyi(chunks)
                \o (IF outFile.state = "written" THEN << [block |-> "rebuilt"] >> ELSE << >>)
    /\ pc' = "write OUT_DIR"
    /\ UNCHANGED <<source, chunks, outFile, pkgFile, chunkVars, typeVars, errVars>>

\* main, line 17
Generate ==
    /\ pc = "generate"
    /\ pyi' = generate_pyi(chunks)
    /\ pc' = "write OUT_DIR"
    /\ UNCHANGED <<source, chunks, outFile, pkgFile, chunkVars, typeVars, errVars>>

\* main, lines 20-22: fs::write(..).expect(..) panics on an error
WriteOutDir ==
    /\ pc = "write OUT_DIR"
    /\ \E result \in fs_write(outFile, pyi) :
         /\ outFile' = result.file
         /\ pc' = IF result.ok THEN "write package" ELSE "panicked"
    /\ UNCHANGED <<source, chunks, pyi, pkgFile, chunkVars, typeVars, errVars>>

\* main, lines 25-41: the result of create_dir_all is dropped, the write's
\* is not
WritePackageDir ==
    /\ pc = "write package"
    /\ \E result \in fs_write(pkgFile, pyi) :
         /\ pkgFile' = result.file
         /\ pc' = IF result.ok THEN "done" ELSE "panicked"
    /\ UNCHANGED <<source, chunks, pyi, outFile, chunkVars, typeVars, errVars>>

\* main entered again: cargo runs the build script once more, src/chunks.rs
\* unchanged and the files as the run before left them
Rebuild ==
    /\ pc \in {"done", "panicked"}
    /\ pc' = "extract"
    /\ chunks' = << >>
    /\ pyi' = << >>
    /\ UNCHANGED <<source, outFile, pkgFile, chunkVars, typeVars, errVars>>

(***************************************************************************)
(* Properties of the type mapping (SpecTypes)                              *)
(***************************************************************************)

IsVec(t) == Len(t) > 0 /\ t[1] = <<"V","e","c">>

IsOption(t) == Len(t) > 0 /\ t[1] = <<"O","p","t","i","o","n">>

\* C8: a Vec of any signed or unsigned integer type other than u8 maps to
\* List[int], and every other Vec type except the byte sequence Vec<u8> maps
\* to List[Any].
C8_IntegerListsMapToListOfInt ==
    (py # NoneOpt /\ IsVec(ty)) =>
        IF \E n \in IntNames \ {<<"u","8">>} : ty = Vec(<<n>>)
        THEN py[1] = <<"L","i","s","t","[","i","n","t","]">>
        ELSE ty # Vec(<<<<"u","8">>>>) => py[1] = <<"L","i","s","t","[","A","n","y","]">>

\* The scalar table of C9: the Python type of each scalar Rust type.
C9_ScalarTable ==
    [t \in {<<n>> : n \in IntNames} |-> <<"i","n","t">>]
      @@ [t \in {<<<<"f","3","2">>>>, <<<<"f","6","4">>>>} |-> <<"f","l","o","a","t">>]
      @@ [t \in {<<<<"b","o","o","l">>>>} |-> <<"b","o","o","l">>]
      @@ [t \in {<<<<"S","t","r","i","n","g">>>>, <<<<"s","t","r">>>>, <<<<"U","u","i","d">>>>} |-> <<"s","t","r">>]
      @@ [t \in {Vec(<<<<"u","8">>>>)} |-> <<"b","y","t","e","s">>]

\* C9: Option<T> maps to Optional[m] with m the scalar table's entry for T,
\* for every T of the table.
C9_OptionOfScalarMapsToOptionalOfScalar ==
    \A t \in DOMAIN C9_ScalarTable :
        (py # NoneOpt /\ ty = Option(t)) =>
            py[1] = <<"O","p","t","i","o","n","a","l","[">> \o C9_ScalarTable[t] \o <<"]">>

\* An optional directly inside an optional, or inside a Vec inside an optional
C10_NestedOptional(t) ==
    /\ IsOption(t)
    /\ \/ Len(t) >= 3 /\ t[3] = <<"O","p","t","i","o","n">>
       \/ Len(t) >= 5 /\ t[3] = <<"V","e","c">> /\ t[5] = <<"O","p","t","i","o","n">>

\* C10: a nested optional, or an optional of a collection of optionals, maps
\* to Optional[Any].
C10_NestedOptionalMapsToOptionalAny ==
    (py # NoneOpt /\ C10_NestedOptional(ty)) => py[1] = <<"O","p","t","i","o","n","a","l","[","A","n","y","]">>


\* the hints the mapping gives to the types it knows by name
C23_NamedTypes ==
    [t \in {<<n>> : n \in IntNames} |-> <<"i","n","t">>]
      @@ [t \in {<<<<"f","3","2">>>>, <<<<"f","6","4">>>>} |-> <<"f","l","o","a","t">>]
      @@ [t \in {<<<<"b","o","o","l">>>>} |-> <<"b","o","o","l">>]
      @@ [t \in {<<<<"S","t","r","i","n","g">>>>, <<<<"s","t","r">>>>, <<<<"U","u","i","d">>>>} |-> <<"s","t","r">>]
      @@ [t \in {Vec(<<<<"u","8">>>>), <<<<"&">>, <<"[">>, <<"u","8">>, <<"]">>>>} |-> <<"b","y","t","e","s">>]

\* the generic types the mapping has an arm for
C23_KnownGenerics == {<<"V","e","c">>, <<"O","p","t","i","o","n">>, <<"H","a","s","h","M","a","p">>, <<"B","T","r","e","e","M","a","p">>}

\* C23: the mapping returns a hint for every type: the named types map as
\* the table says, every HashMap and BTreeMap type to Dict[Any, Any], and a
\* type the mapping does not know to Any.
C23_MappingIsTotalWithFallbackAny ==
    /\ (ty # << >> /\ py = NoneOpt) => ENABLED MapType
    /\ py # NoneOpt =>
          /\ ty \in DOMAIN C23_NamedTypes => py[1] = C23_NamedTypes[ty]
          /\ ty[1] \in {<<"H","a","s","h","M","a","p">>, <<"B","T","r","e","e","M","a","p">>} => py[1] = <<"D","i","c","t","[","A","n","y",","," ","A","n","y","]">>
          /\ (ty \notin DOMAIN C23_NamedTypes /\ ty[1] \notin C23_KnownGenerics) =>
                py[1] = <<"A","n","y">>

\* a type the mapping has no arm for has been mapped
C23_Witness == py # NoneOpt /\ ty = << <<"C","h","u","n","k">> >>

(***************************************************************************)
(* Properties of the catalog's records (SpecChunks)                        *)
(***************************************************************************)

\* C2: to_dict() returns, in this order, the key "type" with the struct's
\* name without its "Py" prefix, then every declared field of the record in
\* declaration order with the value the constructor was given for it.
C2_ToDictIsTypeThenDeclaredFields ==
    ret.method = "to_dict" =>
        LET declared == class_of(obj).fields
            dict == ret.value
        IN  /\ Len(dict) = Len(declared) + 1
            /\ dict[1][1] = <<"t","y","p","e">>
            /\ <<"P","y">> \o dict[1][2] = obj.struct
            /\ \A i \in DOMAIN declared :
                  /\ dict[i + 1][1] = declared[i].field
                  /\ dict[i + 1][2] = args[i]

\* to_dict() has been called on a CustomChunk, the record with most fields
\* among the hand-written ones, and on a macro-declared record with fields.
C2_Witness ==
    /\ ret.method = "to_dict"
    /\ obj.struct \in {<<"P","y","C","u","s","t","o","m","C","h","u","n","k">>, <<"P","y","C","o","n","s","o","l","e","C","o","m","m","a","n","d">>}
    /\ Len(ret.value) >= 4

TupleVariant(c) ==
    \/ c.macro = "define_chunk"
    \/ c.macro = "define_chunk_custom" /\ Len(c.decl.args) = 1

\* C4 as claimed: a TupleVariant record's wire variant tag equals what
\* chunk_type() returns.
C4_TupleVariantTagIsSurfaceName ==
    (ret.method = "write_to_buffer" /\ TupleVariant(class_of(obj))) =>
        ret.chunk.variant = chunk_type(obj)

\* C4 amended: a TupleVariant record's wire variant tag is the variant the
\* declaration names in parentheses; it equals what chunk_type() returns for
\* every such record but AntiBot, whose tag is Antibot.
C4_TupleVariantTagIsDeclaredVariant ==
    (ret.method = "write_to_buffer" /\ TupleVariant(class_of(obj))) =>
        /\ ret.chunk.variant = class_of(obj).decl.args[1]
        /\ obj.struct # <<"P","y","A","n","t","i","B","o","t">> => ret.chunk.variant = chunk_type(obj)
        /\ obj.struct = <<"P","y","A","n","t","i","B","o","t">> =>
              ret.chunk.variant = <<"A","n","t","i","b","o","t">> /\ chunk_type(obj) = <<"A","n","t","i","B","o","t">>

C4_Witness ==
    /\ ret.method = "write_to_buffer"
    /\ obj.struct \in {<<"P","y","A","n","t","i","B","o","t">>, <<"P","y","D","r","o","p">>}
    /\ ~ret.raised

HandWritten == { c.ident : c \in { k \in Classes : k.macro = "" } }

\* the variant a macro declaration names: in parentheses, or the record's
\* own name for define_inline_chunk!
DeclaredVariant(d) == IF d.args = << >> THEN d.name ELSE d.args[1]

\* C5 as claimed: the only records not declared through a macro are Unknown,
\* CustomChunk and Generic, and a macro-declared record encodes to the variant
\* its declaration names.
C5_ThreeHandWrittenRecords ==
    /\ (obj # NoObject /\ class_of(obj).macro = "") =>
            obj.struct \in {<<"P","y","U","n","k","n","o","w","n">>, <<"P","y","C","u","s","t","o","m","C","h","u","n","k">>, <<"P","y","G","e","n","e","r","i","c">>}
    /\ (ret.method = "write_to_buffer" /\ class_of(obj).macro # "") =>
            ret.chunk.variant = DeclaredVariant(class_of(obj).decl)

\* C5 amended: the records not declared through a macro are exactly seven,
\* PlayerReady, PlayerTeam, InputNew, InputDiff, Unknown, CustomChunk and
\* Generic, and a macro-declared record encodes to the variant its
\* declaration names.
C5_SevenHandWrittenRecords ==
    /\ HandWritten = {<<"P","y","P","l","a","y","e","r","R","e","a","d","y">>, <<"P","y","P","l","a","y","e","r","T","e","a","m">>, <<"P","y","I","n","p","u","t","N","e","w">>, <<"P","y","I","n","p","u","t","D","i","f","f">>,
                      <<"P","y","U","n","k","n","o","w","n">>, <<"P","y","C","u","s","t","o","m","C","h","u","n","k">>, <<"P","y","G","e","n","e","r","i","c">>}
    /\ (ret.method = "write_to_buffer" /\ class_of(obj).macro # "") =>
            ret.chunk.variant = DeclaredVariant(class_of(obj).decl)

\* a record declared with two names, and a hand-written one outside the
\* three, have been encoded
C5_Witness ==
    /\ ret.method = "write_to_buffer"
    /\ obj.struct \in {<<"P","y","A","u","t","h","L","o","g","i","n">>, <<"P","y","I","n","p","u","t","N","e","w">>}

\* C6: a failure of write_to_buffer reaches the caller as TeehistorianError.
C6_WriteFailureIsTeehistorianError ==
    (ret.method = "write_to_buffer" /\ ret.raised) => ret.exc.type = "TeehistorianError"

(***************************************************************************)
(* Properties of the build step (SpecBuild)                                *)
(***************************************************************************)

\* main has the reflector's list
Extracted == pc # "extract"

\* main has the stub document
Generated == pc \notin {"extract", "generate"}

\* the blocks of the document that are of one kind
Blocks(kind) == SelectSeq(pyi, LAMBDA b : b.block = kind)

\* how many elements of s equal x
Count(s, x) == Cardinality({ i \in DOMAIN s : s[i] = x })

\* C1: built on src/chunks.rs, the reflector's list has one entry, and the
\* document one class stub and one member of AllChunks, for every record of
\* the catalog, macro-declared or written by hand.
C1_StubCoversCatalog ==
    (Generated /\ source = [readable |-> TRUE, items |-> ChunksRs]) =>
        \A c \in Classes :
            LET name == slice_from(c.ident, 2)
            IN  /\ Count(names_of(chunks), name) = 1
                /\ Count(names_of(Blocks("class")), name) = 1
                /\ Count(Blocks("AllChunks")[1].members, name) = 1

\* the file without its items that do not parse
WithoutMalformed(file) ==
    [file EXCEPT !.items = SelectSeq(file.items, LAMBDA item : item.kind # "Malformed")]

\* C7: with one declaration of the source that does not parse, the build
\* goes on and the reflector returns what it returns for the source without
\* that declaration.
C7_OnlyTheMalformedDeclarationIsOmitted ==
    (/\ Extracted
     /\ source.readable
     /\ Cardinality({ i \in DOMAIN source.items : source.items[i].kind = "Malformed" }) = 1)
        => /\ pc = "panicked" => pyi # << >>
           /\ chunks = extract_chunks_from_source(WithoutMalformed(source))

\* the file holds the document of this build
HoldsDocument(file) == file.state = "written" /\ file.content = pyi

\* C3: when a write has failed and the build has been aborted, the new
\* document is in both destinations or in neither.
C3_FailedWriteLeavesNoSingleCopy ==
    pc = "panicked" => (HoldsDocument(outFile) <=> HoldsDocument(pkgFile))

(***************************************************************************)
(* Properties of the wire values (SpecChunks)                              *)
(***************************************************************************)

\* the value written under a wire field name
WireField(chunk, name) ==
    chunk.fields[CHOOSE i \in DOMAIN chunk.fields : chunk.fields[i][1] = name][2]

\* the records with a bounded integer list, and the wire name of the list
InputRecords == {<<"P","y","I","n","p","u","t","N","e","w">>, <<"P","y","I","n","p","u","t","D","i","f","f">>}

InputWireName(self) == IF self.struct = <<"P","y","I","n","p","u","t","N","e","w">> THEN <<"i","n","p","u","t">> ELSE <<"d","i","n","p","u","t">>

\* C11: the input list of InputNew and InputDiff is encoded as exactly 10
\* integers: position i holds the i-th value given for i up to min(10,
\* length) and 0 after that, and the conversion yields a wire value for
\* every length.
C11_InputIsTenIntegers ==
    (ret.method = "write_to_buffer" /\ obj.struct \in InputRecords) =>
        LET given == args[2]
            wire == WireField(ret.chunk, InputWireName(obj))
        IN  /\ Len(wire) = 10
            /\ \A i \in 1..10 : wire[i] = IF i <= Len(given) THEN given[i] ELSE 0
            /\ ret.raised => ret.exc.message[2] = "codec error"

\* 15 values were given and encoded: the list is cut to its first 10
C11_Witness ==
    /\ ret.method = "write_to_buffer"
    /\ obj.struct \in InputRecords
    /\ Len(args[2]) = 15
    /\ ~ret.raised

\* the records with an identifier field: the position of the field among
\* the constructor's arguments and its wire name
IdentifierFields ==
    { [struct |-> <<"P","y","U","n","k","n","o","w","n">>, arg |-> 1, wire |-> <<"u","u","i","d">>],
      [struct |-> <<"P","y","C","u","s","t","o","m","C","h","u","n","k">>, arg |-> 1, wire |-> <<"u","u","i","d">>],
      [struct |-> <<"P","y","D","d","n","e","t","V","e","r","s","i","o","n">>, arg |-> 2, wire |-> <<"c","o","n","n","e","c","t","i","o","n","_","i","d">>],
      [struct |-> <<"P","y","T","e","a","m","L","o","a","d","S","u","c","c","e","s","s">>, arg |-> 2, wire |-> <<"s","a","v","e","_","i","d">>] }

AllZeroIdentifier == <<0, 0, 0, 0, 0, 0, 0, 0, 0, 0, 0, 0, 0, 0, 0, 0>>

\* C12: an identifier field given a text that does not parse as an
\* identifier is encoded as the all-zero identifier, and the conversion
\* yields a wire value all the same; Unknown("not-a-token", [1, 2]) encodes
\* the all-zero identifier and the two bytes.
C12_UnparsableIdentifierIsAllZero ==
    ret.method = "write_to_buffer" =>
        /\ \A k \in IdentifierFields :
              (obj.struct = k.struct /\ parse_str(args[k.arg]) = NoneOpt) =>
                  /\ WireField(ret.chunk, k.wire) = AllZeroIdentifier
                  /\ ret.raised => ret.exc.message[2] = "codec error"
        /\ (obj.struct = <<"P","y","U","n","k","n","o","w","n">> /\ args = << <<"n","o","t","-","a","-","t","o","k","e","n">>, <<1, 2>> >>) =>
              ret.chunk.fields = << <<<<"u","u","i","d">>, AllZeroIdentifier>>, <<<<"d","a","t","a">>, <<1, 2>> >> >>

\* Unknown("not-a-token", [1, 2]) has been encoded
C12_Witness ==
    /\ ret.method = "write_to_buffer"
    /\ obj.struct = <<"P","y","U","n","k","n","o","w","n">>
    /\ args = << <<"n","o","t","-","a","-","t","o","k","e","n">>, <<1, 2>> >>
    /\ ~ret.raised

HandFields(ident) == (CHOOSE c \in Classes : c.ident = ident).fields

\* C17: CustomChunk(uuid, data, handler_name) has the wire value of
\* Unknown(uuid, data), the UnknownEx variant with the parsed-or-zero
\* identifier and the bytes as given; handler_name is not in the wire value
\* and is read back through its getter and as the last key of to_dict.
C17_CustomChunkEncodesAsUnknown ==
    obj.struct = <<"P","y","C","u","s","t","o","m","C","h","u","n","k">> =>
        /\ ret.method = "write_to_buffer" =>
              /\ ret.chunk = to_teehistorian_chunk(
                                 new(<<"P","y","U","n","k","n","o","w","n">>, HandFields(<<"P","y","U","n","k","n","o","w","n">>),
                                     <<args[1], args[2]>>))
              /\ ret.chunk.variant = <<"U","n","k","n","o","w","n","E","x">>
              /\ ret.chunk.fields =
                    << <<<<"u","u","i","d">>, IF parse_str(args[1]) = NoneOpt THEN AllZeroIdentifier
                                  ELSE parse_str(args[1])[1]>>,
                       <<<<"d","a","t","a">>, args[2]>> >>
        /\ ret.method = "to_dict" =>
              ret.value[Len(ret.value)] = <<<<"h","a","n","d","l","e","r","_","n","a","m","e">>, args[3]>>
        /\ (ret.method = "get" /\ ret.field = <<"h","a","n","d","l","e","r","_","n","a","m","e">>) => ret.value = args[3]

\* a CustomChunk with a handler name and an identifier that parses has been
\* encoded
C17_Witness ==
    /\ ret.method = "write_to_buffer"
    /\ obj.struct = <<"P","y","C","u","s","t","o","m","C","h","u","n","k">>
    /\ args[1] = <<"0","0","1","1","2","2","3","3","-","4","4","5","5","-","6","6","7","7","-","8","8","9","9","-","a","A","b","B","c","C","d","D","e","E","f","F">>
    /\ args[3] = <<"a","b">>
    /\ ~ret.raised

\* C19: a record declared as name(variant :: struct) encodes to the variant
\* wrapping the separately named struct: AuthLogin to AuthLogin(Auth { cid,
\* level, auth_name }) with auth_name the bytes of the text, TeamLoadSuccess
\* to TeamLoadSuccess(TeamSave { .. }).
C19_NamedStructIsTheInnerRecord ==
    ret.method = "write_to_buffer" =>
        /\ (class_of(obj).macro = "define_chunk_custom" /\ Len(class_of(obj).decl.args) = 2) =>
              /\ ret.chunk.variant = class_of(obj).decl.args[1]
              /\ ret.chunk.struct = << class_of(obj).decl.args[2] >>
        /\ obj.struct = <<"P","y","A","u","t","h","L","o","g","i","n">> =>
              /\ ret.chunk.variant = <<"A","u","t","h","L","o","g","i","n">>
              /\ ret.chunk.struct = << <<"A","u","t","h">> >>
              /\ ret.chunk.fields = << <<<<"c","i","d">>, args[1]>>, <<<<"l","e","v","e","l">>, args[2]>>,
                                       <<<<"a","u","t","h","_","n","a","m","e">>, as_bytes(args[3])>> >>
              /\ args[3] = <<"a","b">> => WireField(ret.chunk, <<"a","u","t","h","_","n","a","m","e">>) = <<97, 98>>
        /\ obj.struct = <<"P","y","T","e","a","m","L","o","a","d","S","u","c","c","e","s","s">> =>
              /\ ret.chunk.variant = <<"T","e","a","m","L","o","a","d","S","u","c","c","e","s","s">>
              /\ ret.chunk.struct = << <<"T","e","a","m","S","a","v","e">> >>

\* AuthLogin(7, 0, "ab") has been encoded
C19_Witness ==
    /\ ret.method = "write_to_buffer"
    /\ obj.struct = <<"P","y","A","u","t","h","L","o","g","i","n">>
    /\ args = <<7, 0, <<"a","b">>>>
    /\ ~ret.raised

\* C20: a record declared with define_inline_chunk! encodes to the variant
\* named like the record, its fields written inline under their wire names;
\* Join(client_id = c) has to_dict {"type": "Join", "client_id": c} and
\* encodes to Join { cid: c }.
C20_InlineFieldsUnderWireNames ==
    /\ (ret.method = "write_to_buffer" /\ class_of(obj).macro = "define_inline_chunk") =>
          LET declared == class_of(obj).decl.fields
          IN  /\ <<"P","y">> \o ret.chunk.variant = obj.struct
              /\ ret.chunk.struct = << >>
              /\ Len(ret.chunk.fields) = Len(declared)
              /\ \A i \in DOMAIN declared :
                    ret.chunk.fields[i] = <<declared[i].wire, args[i]>>
    /\ obj.struct = <<"P","y","J","o","i","n">> =>
          /\ ret.method = "to_dict" =>
                ret.value = << <<<<"t","y","p","e">>, <<"J","o","i","n">>>>, <<<<"c","l","i","e","n","t","_","i","d">>, args[1]>> >>
          /\ ret.method = "write_to_buffer" =>
                ret.chunk = [variant |-> <<"J","o","i","n">>, struct |-> << >>,
                             fields |-> << <<<<"c","i","d">>, args[1]>> >>]

\* Join(client_id = 7) has been encoded
C20_Witness ==
    /\ ret.method = "write_to_buffer"
    /\ obj.struct = <<"P","y","J","o","i","n">>
    /\ args = <<7>>
    /\ ~ret.raised

(***************************************************************************)
(* Properties of the stub document (SpecBuild)                             *)
(***************************************************************************)

AliasMembers == concat([i \in DOMAIN Blocks("alias") |-> Blocks("alias")[i].members])

\* the declarations of the source that carry no category marker
WithoutMarker ==
    { i \in DOMAIN source.items :
         /\ is_chunk_struct(source.items[i])
         /\ extract_chunk_info(source.items[i]) # NoneOpt
         /\ extract_chunk_category(source.items[i].attrs) = NoneOpt }

\* C13: the category aliases partition the records the emitter was given:
\* every record is a member of exactly one alias, the one of its category
\* ("Other" for a declaration without marker), no alias is empty, and the
\* members of all aliases are the members of AllChunks, each once.
C13_CategoryAliasesPartitionTheRecords ==
    Generated =>
        LET aliases == Blocks("alias")
            all == Blocks("AllChunks")[1].members
        IN  /\ \A i \in DOMAIN chunks :
                  LET holding == { j \in DOMAIN aliases :
                                      chunks[i].name \in Range(aliases[j].members) }
                  IN  /\ Cardinality(holding) = 1
                      /\ \A j \in holding :
                            aliases[j].var_name = chunks[i].category \o <<"C","h","u","n","k">>
            /\ \A j \in DOMAIN aliases : aliases[j].members # << >>
            /\ Len(AliasMembers) = Len(all)
            /\ \A name \in Range(all) \cup Range(AliasMembers) :
                  Count(AliasMembers, name) = 1 /\ Count(all, name) = 1
            /\ Len(all) = Len(chunks)
            /\ (source.readable /\ parse_file(source.items) # NoneOpt) =>
                  \A i \in WithoutMarker :
                      \E j \in DOMAIN aliases :
                          /\ aliases[j].var_name = <<"O","t","h","e","r","C","h","u","n","k">>
                          /\ extract_chunk_info(source.items[i])[1].name
                                \in Range(aliases[j].members)

\* a document with three categories, "Other" among them, has been generated
C13_Witness ==
    /\ pc = "done"
    /\ Len(Blocks("alias")) = 3
    /\ \E j \in DOMAIN Blocks("alias") : Blocks("alias")[j].var_name = <<"O","t","h","e","r","C","h","u","n","k">>

\* s is in ascending order (equal neighbours allowed)
Ascending(s) == \A i \in 1..(Len(s) - 1) : cmp_str(s[i], s[i + 1]) <= 0

\* s is in ascending order without repetition
StrictlyAscending(s) == \A i \in 1..(Len(s) - 1) : cmp_str(s[i], s[i + 1]) < 0

\* the categories in the order of their alias blocks
AliasCategories ==
    [j \in DOMAIN Blocks("alias") |->
        SubSeq(Blocks("alias")[j].var_name, 1, Len(Blocks("alias")[j].var_name) - 5)]

\* the categories in the order of their sections
SectionCategories ==
    [j \in DOMAIN Blocks("category comment") |-> Blocks("category comment")[j].category]

\* the names of the class stubs of one category, in document order
ClassesOf(category) ==
    names_of(SelectSeq(Blocks("class"),
                       LAMBDA b : \E i \in DOMAIN chunks :
                                     chunks[i].name = b.name /\ chunks[i].category = category))

\* C15: the reflector's list is in ascending order of surface name whatever
\* the order of the declarations, before anything is generated; AllChunks
\* lists the names in ascending order, the category sections and the
\* category aliases come in ascending order of category, and the records of
\* a category are in ascending order of name.
C15_SortedBySurfaceName ==
    /\ Extracted => Ascending(names_of(chunks))
    /\ Generated =>
          /\ Ascending(Blocks("AllChunks")[1].members)
          /\ StrictlyAscending(SectionCategories)
          /\ StrictlyAscending(AliasCategories)
          /\ \A j \in DOMAIN Blocks("alias") : Ascending(Blocks("alias")[j].members)
          /\ \A j \in DOMAIN SectionCategories : Ascending(ClassesOf(SectionCategories[j]))
          /\ names_of(Blocks("class"))
                = concat([j \in DOMAIN SectionCategories |-> ClassesOf(SectionCategories[j])])

\* the declarations i and j of the source are records, and i comes first
\* with the greater name
DeclaredOutOfOrder(i, j) ==
    /\ i < j
    /\ is_chunk_struct(source.items[i]) /\ is_chunk_struct(source.items[j])
    /\ extract_chunk_info(source.items[i]) # NoneOpt
    /\ extract_chunk_info(source.items[j]) # NoneOpt
    /\ cmp_str(extract_chunk_info(source.items[i])[1].name,
               extract_chunk_info(source.items[j])[1].name) > 0

\* a source that declares its records out of order has been built
C15_Witness ==
    /\ pc = "done"
    /\ source.readable
    /\ Len(chunks) >= 2
    /\ \E i, j \in DOMAIN source.items : DeclaredOutOfOrder(i, j)

(***************************************************************************)
(* Properties of the two views of a record (SpecChunks)                    *)
(***************************************************************************)

\* C21: Generic(data) encodes to the variant NetMessage with cid = -1 and
\* msg the bytes of data, for every data, and its to_dict is
\* {"type": "Generic", "data": data}.
C21_GenericIsNetMessageFromMinusOne ==
    obj.struct = <<"P","y","G","e","n","e","r","i","c">> =>
        /\ ret.method = "write_to_buffer" =>
              /\ ret.chunk.variant = <<"N","e","t","M","e","s","s","a","g","e">>
              /\ ret.chunk.struct = << <<"N","e","t","M","e","s","s","a","g","e">> >>
              /\ ret.chunk.fields = << <<<<"c","i","d">>, -1>>, <<<<"m","s","g">>, as_bytes(args[1])>> >>
              /\ Len(WireField(ret.chunk, <<"m","s","g">>)) = Len(args[1])
              /\ args[1] = <<"a"," ","b">> => WireField(ret.chunk, <<"m","s","g">>) = <<97, 32, 98>>
        /\ ret.method = "to_dict" =>
              ret.value = << <<<<"t","y","p","e">>, <<"G","e","n","e","r","i","c">>>>, <<<<"d","a","t","a">>, args[1]>> >>

\* Generic("a b") has been encoded
C21_Witness ==
    /\ ret.method = "write_to_buffer"
    /\ obj.struct = <<"P","y","G","e","n","e","r","i","c">>
    /\ args = << <<"a"," ","b">> >>
    /\ ~ret.raised

\* C24: a record instance is immutable. No call of chunk_type, to_dict,
\* __repr__, __str__, write_to_buffer or data_preview, nor a field read,
\* changes the instance; every field holds, and every field read returns,
\* the value the constructor was given.
C24_InstancesAreImmutable ==
    /\ [](obj # NoObject =>
            LET declared == class_of(obj).fields
            IN  /\ \A i \in DOMAIN declared : obj.f[declared[i].field] = args[i]
                /\ ret.method = "get" =>
                      \E i \in DOMAIN declared :
                          declared[i].field = ret.field /\ ret.value = args[i])
    /\ [][obj # NoObject => obj' = obj /\ args' = args]_vars

\* an InputNew built from 15 values has been encoded
C24_Witness ==
    /\ obj.struct = <<"P","y","I","n","p","u","t","N","e","w">>
    /\ Len(args[2]) = 15
    /\ ret.method = "write_to_buffer"

\* the records declared without an explicit conversion
TypeDirected == {"define_chunk", "define_inline_chunk"}

\* C27: in a record declared with define_chunk! or define_inline_chunk! a
\* String field goes to the wire as the bytes of the text, a Vec<u8> field as
\* the same bytes, and a field of another type unchanged; Drop(client_id,
\* reason) has reason on the wire as the bytes of the text.
C27_TypeDirectedConversion ==
    /\ \A b \in BytesValues : convert_field(b, T_VecU8) = b
    /\ (ret.method = "write_to_buffer" /\ class_of(obj).macro \in TypeDirected) =>
          LET declared == class_of(obj).decl.fields
          IN  \A i \in DOMAIN declared :
                  LET wire == WireField(ret.chunk, declared[i].wire)
                  IN  /\ declared[i].ty = T_String =>
                            /\ Len(wire) = Len(args[i])
                            /\ \A k \in DOMAIN wire : wire[k] = byte_of(args[i][k])
                      /\ declared[i].ty # T_String => wire = args[i]
    /\ (ret.method = "write_to_buffer" /\ obj.struct = <<"P","y","D","r","o","p">>) =>
          /\ WireField(ret.chunk, <<"c","i","d">>) = args[1]
          /\ args[2] = <<"a","b">> => WireField(ret.chunk, <<"r","e","a","s","o","n">>) = <<97, 98>>
          /\ args[2] = << >> => WireField(ret.chunk, <<"r","e","a","s","o","n">>) = << >>

\* Drop(7, "ab") has been encoded
C27_Witness ==
    /\ ret.method = "write_to_buffer"
    /\ obj.struct = <<"P","y","D","r","o","p">>
    /\ args = <<7, <<"a","b">>>>
    /\ ~ret.raised

\* the value of a key of a dict
DictValue(dict, key) == dict[CHOOSE i \in DOMAIN dict : dict[i][1] = key][2]

\* the wire value the instance converts to
Wire == to_teehistorian_chunk(obj)

\* C28: conversions apply at encode only. to_dict and the getter of
\* InputNew and InputDiff return the list as given, whatever its length,
\* while the wire value has the 10-element array; to_dict of Unknown,
\* CustomChunk and DdnetVersion returns the identifier text as given, while
\* the wire value has the all-zero identifier where the text does not parse.
C28_ViewsDisagreeWithTheWire ==
    /\ obj.struct \in InputRecords =>
          /\ ret.method = "to_dict" => DictValue(ret.value, <<"i","n","p","u","t">>) = args[2]
          /\ (ret.method = "get" /\ ret.field = <<"i","n","p","u","t">>) => ret.value = args[2]
          /\ Len(WireField(Wire, InputWireName(obj))) = 10
          /\ (ret.method = "to_dict" /\ Len(args[2]) # 10) =>
                DictValue(ret.value, <<"i","n","p","u","t">>) # WireField(Wire, InputWireName(obj))
    /\ \A k \in IdentifierFields :
          (obj.struct = k.struct /\ obj.struct # <<"P","y","T","e","a","m","L","o","a","d","S","u","c","c","e","s","s">>) =>
              /\ ret.method = "to_dict" =>
                    DictValue(ret.value, class_of(obj).fields[k.arg].field) = args[k.arg]
              /\ parse_str(args[k.arg]) = NoneOpt =>
                    WireField(Wire, k.wire) = AllZeroIdentifier

\* to_dict has been called on an InputNew given 15 values
C28_Witness ==
    /\ ret.method = "to_dict"
    /\ obj.struct = <<"P","y","I","n","p","u","t","N","e","w">>
    /\ Len(args[2]) = 15

\* the instances PlayerReady(client_id) and PlayerTeam(client_id, team)
PlayerReady(client_id) == new(<<"P","y","P","l","a","y","e","r","R","e","a","d","y">>, HandFields(<<"P","y","P","l","a","y","e","r","R","e","a","d","y">>), <<client_id>>)

PlayerTeam(client_id, team) ==
    new(<<"P","y","P","l","a","y","e","r","T","e","a","m">>, HandFields(<<"P","y","P","l","a","y","e","r","T","e","a","m">>), <<client_id, team>>)

C22_EofIsStopIterationOthersTeehistorianError ==
    pyErr # NoneOpt =>
        LET e == pyErr[1]
        IN  /\ err.kind = "Eof" => e.type = "StopIteration" /\ e.type # "TeehistorianError"
            /\ err.kind # "Eof" =>
                  /\ err.kind \in PayloadKinds
                  /\ e.type = "TeehistorianError"
                  /\ e.message = err_to_string(err)
                  /\ ends_with(e.message, err.payload)
                  /\ Len(e.message) > Len(err.payload)
            /\ err.kind = "Validation" => e.message = <<"V","a","l","i","d","a","t","i","o","n"," ","f","a","i","l","e","d",":"," ">> \o err.payload
            /\ err = [kind |-> "Validation", payload |-> <<"I","n","v","a","l","i","d"," ","d","a","t","a">>] =>
                  e.message = <<"V","a","l","i","d","a","t","i","o","n"," ","f","a","i","l","e","d",":"," ","I","n","v","a","l","i","d"," ","d","a","t","a">>

\* Eof has been converted
C22_Witness == pyErr # NoneOpt /\ err.kind = "Eof"

(***************************************************************************)
(* Properties of what the reflector reads (SpecBuild)                      *)
(***************************************************************************)

\* the source parses and its item i is a record the reflector keeps
Reflected(i) ==
    /\ source.readable
    /\ \A k \in DOMAIN source.items : source.items[k].kind # "Malformed"
    /\ source.items[i].kind = "Struct"
    /\ source.items[i].vis = "pub"
    /\ \E a \in DOMAIN source.items[i].attrs : source.items[i].attrs[a].path = "pyclass"
    /\ source.items[i].ident # <<"P","y","C","h","u","n","k">>

\* the fields of a struct item that carry #[pyo3(get)], in declaration order
ReadableFields(item) ==
    SelectSeq(item.fields, LAMBDA f : \E a \in DOMAIN f.attrs : f.attrs[a] = Pyo3Get)

\* the class stub of the document with this name
ClassStub(name) == CHOOSE b \in Range(Blocks("class")) : b.name = name

\* the name a struct is reflected under
SurfaceName(ident) == IF starts_with(ident, <<"P","y">>) THEN slice_from(ident, 2) ELSE ident

\* C25: the class stub of a reflected record lists the record's readable
\* fields with their mapped types in declaration order, and its __init__ has
\* self followed by those fields with the same types in the same order; a
\* record without fields has __init__(self) and no annotation.
C25_StubMirrorsReadableFields ==
    Generated =>
        \A i \in DOMAIN source.items :
            Reflected(i) =>
                LET declared == ReadableFields(source.items[i])
                    stub == ClassStub(SurfaceName(source.items[i].ident))
                IN  /\ Len(stub.annotations) = Len(declared)
                    /\ \A k \in DOMAIN declared :
                          stub.annotations[k]
                              = <<declared[k].ident, rust_type_to_python(declared[k].ty)>>
                    /\ Len(stub.init) = Len(declared) + 1
                    /\ stub.init[1] = << <<"s","e","l","f">> >>
                    /\ \A k \in DOMAIN declared : stub.init[k + 1] = stub.annotations[k]
                    /\ declared = << >> =>
                          stub.annotations = << >> /\ stub.init = << << <<"s","e","l","f">> >> >>

\* the stub of CustomChunk, with its fields, has been written from the
\* repository's own source
C25_Witness ==
    /\ pc = "done"
    /\ source.readable
    /\ source.items = ChunksRs
    /\ Len(ClassStub(<<"C","u","s","t","o","m","C","h","u","n","k">>).annotations) > 0
    /\ ClassStub(<<"C","u","s","t","o","m","C","h","u","n","k">>).init
          = << << <<"s","e","l","f">> >> >> \o ClassStub(<<"C","u","s","t","o","m","C","h","u","n","k">>).annotations

\* the category the reflector has recorded for the only record of the source
OnlyCategory == chunks[1].category

\* the source is the file holding the record MarkerItems[i] alone
OnlyMarkerItem(i) == source.readable /\ source.items = << MarkerItems[i] >>

\* C26: the category of a record is the first word after "Category:" in the
\* first doc line where such a word exists; only when no doc line gives one is
\* the chunk_category attribute used, trimmed; with neither it is "Other".
C26_CategoryFromDocsThenAttributeThenOther ==
    Extracted =>
        /\ OnlyMarkerItem(1) => Len(chunks) = 1 /\ OnlyCategory = <<"S","e","c","o","n","d">>
        /\ OnlyMarkerItem(2) => Len(chunks) = 1 /\ OnlyCategory = <<"L","e","g","a","c","y">>
        /\ OnlyMarkerItem(3) => Len(chunks) = 1 /\ OnlyCategory = <<"F","r","o","m","D","o","c">>
        /\ OnlyMarkerItem(4) => Len(chunks) = 1 /\ OnlyCategory = <<"T","i","g","h","t">>
        /\ OnlyMarkerItem(5) => Len(chunks) = 1 /\ OnlyCategory = <<"O","t","h","e","r">>
        /\ \A i \in DOMAIN source.items :
              Reflected(i) =>
                  LET item == source.items[i]
                      marked == \E a \in DOMAIN item.attrs :
                                    \/ /\ lit_str(item.attrs[a], "doc") # NoneOpt
                                       /\ find(item.attrs[a].lit[1], <<"C","a","t","e","g","o","r","y",":">>) # NoneOpt
                                    \/ item.attrs[a].path = "chunk_category"
                      info == CHOOSE c \in Range(chunks) : c.name = SurfaceName(item.ident)
                  IN  ~marked => info.category = <<"O","t","h","e","r">>

\* a record with both a doc marker and the attribute has been reflected under
\* the doc marker's category
C26_Witness ==
    /\ pc = "generate"
    /\ OnlyMarkerItem(3)
    /\ OnlyCategory = <<"F","r","o","m","D","o","c">>

\* item i of the source text would be kept by the reflector's filter
Reflectable(i) ==
    /\ source.items[i].kind = "Struct"
    /\ source.items[i].vis = "pub"
    /\ \E a \in DOMAIN source.items[i].attrs : source.items[i].attrs[a].path = "pyclass"
    /\ source.items[i].ident # <<"P","y","C","h","u","n","k">>

\* the source cannot be read, or cannot be parsed, or holds no record to reflect
NothingToReflect ==
    \/ ~source.readable
    \/ \E i \in DOMAIN source.items : source.items[i].kind = "Malformed"
    \/ \A i \in DOMAIN source.items : ~Reflectable(i)

\* the document of a build without chunks
EmptyDocument ==
    FixedSections \o << [block |-> "type aliases"],
                        [block |-> "AllChunks", members |-> << >>] >>

\* C30: with the source unreadable, unparsable or without a record to
\* reflect, the reflector's list is empty, every step of the build is still
\* taken, the document is the fixed sections followed by the alias heading and
\* an AllChunks union without members, with no category section and no
\* category alias, and a completed build has written it to both destinations.
C30_EmptyReflectionStillBuilds ==
    NothingToReflect =>
        /\ Extracted => chunks = << >>
        /\ Generated =>
              /\ pyi = EmptyDocument
              /\ Blocks("category comment") = << >> /\ Blocks("class") = << >>
              /\ Blocks("alias") = << >>
        /\ pc = "extract" => ENABLED Extract
        /\ pc = "generate" => ENABLED Generate
        /\ pc = "write OUT_DIR" =>
              ENABLED (WriteOutDir /\ pc' = "write package" /\ outFile' = Written(EmptyDocument))
        /\ pc = "write package" =>
              ENABLED (WritePackageDir /\ pc' = "done" /\ pkgFile' = Written(EmptyDocument))
        /\ pc = "done" =>
              outFile = Written(EmptyDocument) /\ pkgFile = Written(EmptyDocument)

\* a build of a source with a record and a malformed declaration has ended
\* with the empty document in both destinations
C30_Witness ==
    /\ pc = "done"
    /\ source.readable
    /\ \E i \in DOMAIN source.items : source.items[i].kind = "Malformed"
    /\ \E i \in DOMAIN source.items : Reflectable(i)
    /\ chunks = << >>
    /\ outFile = Written(EmptyDocument)
    /\ pkgFile = Written(EmptyDocument)

(***************************************************************************)
(* Specifications                                                          *)
(***************************************************************************)

Absent == [state |-> "absent"]

\* the document a build of other declarations left behind
Stale == [state |-> "stale"]

BuildIdle ==
    /\ pc = "idle" /\ source = [readable |-> FALSE, items |-> << >>]
    /\ chunks = << >> /\ pyi = << >>
    /\ outFile = Absent /\ pkgFile = Absent

ChunkIdle == args = << >> /\ obj = NoObject /\ ret = NoCall

TypeIdle == ty = << >> /\ py = NoneOpt

ErrorIdle == err = NoError /\ pyErr = NoneOpt

\* The type mapping applied to every type of Types.
InitTypes == BuildIdle /\ ChunkIdle /\ ErrorIdle /\ ty \in Types /\ py = NoneOpt

NextTypes == MapType

SpecTypes == InitTypes /\ [][NextTypes]_vars

\* One record of the catalog is constructed and its methods are called.
InitChunks == BuildIdle /\ ChunkIdle /\ TypeIdle /\ ErrorIdle

NextChunks ==
    \/ PyNew
    \/ GetField
    \/ ChunkType
    \/ ToDict
    \/ WriteToBuffer
    \/ Repr
    \/ Str
    \/ DataPreview

SpecChunks == InitChunks /\ [][NextChunks]_vars

\* One run of the build script on one declaration source.
InitBuild ==
    /\ pc = "extract" /\ source \in Sources
    /\ chunks = << >> /\ pyi = << >>
    /\ outFile \in {Absent, Stale} /\ pkgFile \in {Absent, Stale}
    /\ ChunkIdle /\ TypeIdle /\ ErrorIdle

NextBuild ==
    \/ Extract
    \/ Generate
    \/ WriteOutDir
    \/ WritePackageDir
    \/ Rebuild

SpecBuild == InitBuild /\ [][NextBuild]_vars

\* One error of the library reaches the boundary to Python.
InitErrors == BuildIdle /\ ChunkIdle /\ TypeIdle /\ err \in Errors /\ pyErr = NoneOpt

NextErrors == IntoPyErr

SpecErrors == InitErrors /\ [][NextErrors]_vars

=============================================================================
